---- MODULE Spec2Model ----
(***************************************************************************)
(* A model of the spki package (SPKI/SDSI keys, hashes, names, validity    *)
(* intervals, certificates and signatures over S-expressions).             *)
(*                                                                         *)
(* Every decoder and every algebraic operation of the package is a pure    *)
(* function of its arguments and of the digest registry KnownHashes.  The  *)
(* state machine is a caller: the initial state holds the arguments of one *)
(* call, the action performs the call and records what came back: the      *)
(* returned values, the returned error, or the panic that unwound it.      *)
(*                                                                         *)
(* Byte strings ([]byte, string) are sequences of 0..255.  A nil pointer,  *)
(* a nil slice and a nil interface are the empty sequence; a non-nil       *)
(* pointer to v is <<v>>.                                                  *)
(***************************************************************************)
EXTENDS Integers, Sequences, FiniteSets, TLC

VARIABLES
    KnownHashes,  \* the digest registry: the names it maps to a constructor
    pc,           \* "call" before the call, "done" after it
    op,           \* the operation that was called
    arg,          \* the arguments of the call
    res           \* what the call returned

vars == <<KnownHashes, pc, op, arg, res>>

\* ------------------------------------------------------------------ bounds

\* Integers (key coordinates, signature values) have up to this many bytes.
MaxIntBytes == 2
\* Hash and signature expressions have up to this many elements.
MaxListLen == 5
\* Timestamps of validity bounds are 0..MaxTime.
MaxTime == 4
\* Names have up to this many local names after the principal.
MaxNames == 3

\* ------------------------------------------------------------ byte strings

\* []byte("..."): the bytes of the string literals the package uses.
B(str) ==
    CASE str = "hash" -> <<104, 97, 115, 104>>
      [] str = "uris" -> <<117, 114, 105, 115>>
      [] str = "public-key" -> <<112, 117, 98, 108, 105, 99, 45, 107, 101, 121>>
      [] str = "private-key" -> <<112, 114, 105, 118, 97, 116, 101, 45, 107, 101, 121>>
      [] str = "ecdsa-sha2" -> <<101, 99, 100, 115, 97, 45, 115, 104, 97, 50>>
      [] str = "curve" -> <<99, 117, 114, 118, 101>>
      [] str = "p256" -> <<112, 50, 53, 54>>
      [] str = "p384" -> <<112, 51, 56, 52>>
      [] str = "p512" -> <<112, 53, 49, 50>>
      [] str = "p521" -> <<112, 53, 50, 49>>
      [] str = "x" -> <<120>>
      [] str = "y" -> <<121>>
      [] str = "d" -> <<100>>
      [] str = "r" -> <<114>>
      [] str = "s" -> <<115>>
      [] str = "signature" -> <<115, 105, 103, 110, 97, 116, 117, 114, 101>>
      [] str = "sha224" -> <<115, 104, 97, 50, 50, 52>>
      [] str = "sha256" -> <<115, 104, 97, 50, 53, 54>>
      [] str = "sha384" -> <<115, 104, 97, 51, 56, 52>>
      [] str = "sha512" -> <<115, 104, 97, 53, 49, 50>>
      [] str = "md5" -> <<109, 100, 53>>
      [] str = "foo" -> <<102, 111, 111>>
      [] str = "http://a" -> <<104, 116, 116, 112, 58, 47, 47, 97>>
      [] str = "%zz" -> <<37, 122, 122>>
      [] str = "name" -> <<110, 97, 109, 101>>
      [] str = "Self" -> <<83, 101, 108, 102>>
      [] str = "valid" -> <<118, 97, 108, 105, 100>>
      [] str = "not-before" -> <<110, 111, 116, 45, 98, 101, 102, 111, 114, 101>>
      [] str = "not-after" -> <<110, 111, 116, 45, 97, 102, 116, 101, 114>>
      [] str = "cert" -> <<99, 101, 114, 116>>
      [] str = "issuer" -> <<105, 115, 115, 117, 101, 114>>
      [] str = "subject" -> <<115, 117, 98, 106, 101, 99, 116>>
      [] str = "delegate" -> <<100, 101, 108, 101, 103, 97, 116, 101>>
      [] str = "tag" -> <<116, 97, 103>>
      [] str = "dns" -> <<100, 110, 115>>
      [] str = "a" -> <<97>>
      [] str = "b" -> <<98>>
      [] str = "c" -> <<99>>
      [] str = "(ecdsa-sha2 (curve p256))" -> <<40, 101, 99, 100, 115, 97, 45, 115, 104, 97, 50, 32, 40, 99, 117, 114, 118, 101, 32, 112, 50, 53, 54, 41, 41>>
      [] str = "ecdsa-sha2 (curve p256)" -> <<101, 99, 100, 115, 97, 45, 115, 104, 97, 50, 32, 40, 99, 117, 114, 118, 101, 32, 112, 50, 53, 54, 41>>
      [] str = "(ecdsa-sha2 (curve p384))" -> <<40, 101, 99, 100, 115, 97, 45, 115, 104, 97, 50, 32, 40, 99, 117, 114, 118, 101, 32, 112, 51, 56, 52, 41, 41>>
      [] str = "(ecdsa-sha2  (curve p256))" -> <<40, 101, 99, 100, 115, 97, 45, 115, 104, 97, 50, 32, 32, 40, 99, 117, 114, 118, 101, 32, 112, 50, 53, 54, 41, 41>>
      [] str = "(ECDSA-SHA2 (CURVE P256))" -> <<40, 69, 67, 68, 83, 65, 45, 83, 72, 65, 50, 32, 40, 67, 85, 82, 86, 69, 32, 80, 50, 53, 54, 41, 41>>
      [] str = "This is a test; it is only a test" -> <<84, 104, 105, 115, 32, 105, 115, 32, 97, 32, 116, 101, 115, 116, 59, 32, 105, 116, 32, 105, 115, 32, 111, 110, 108, 121, 32, 97, 32, 116, 101, 115, 116>>

\* -------------------------------------------------------------- S-expressions

\* sexprs.Atom{DisplayHint, Value}
AtomH(hint, value) == [k |-> "atom", hint |-> hint, v |-> value, l |-> <<>>]
Atom(value) == AtomH(<<>>, value)
\* sexprs.List
List(elts) == [k |-> "list", hint |-> <<>>, v |-> <<>>, l |-> elts]
\* the nil sexprs.Sexp
NilSexp == [k |-> "nil", hint |-> <<>>, v |-> <<>>, l |-> <<>>]

IsAtom(s) == s.k = "atom"
IsList(s) == s.k = "list"

\* a.Equal(s) for an atom a: s is an atom with the same display hint and value
AtomEqual(a, s) == IsAtom(s) /\ s.hint = a.hint /\ s.v = a.v

hashAtom == Atom(B("hash"))
urisAtom == Atom(B("uris"))
publicKeyAtom == Atom(B("public-key"))
privateKeyAtom == Atom(B("private-key"))
ecdsa256Atom == Atom(B("ecdsa-sha2"))
ecdsa384Atom == Atom(B("ecdsa-sha2"))
signatureAtom == Atom(B("signature"))

\* ------------------------------------------------------ errors and panics

\* the nil error
NoErr == [kind |-> "nil", msg |-> "", hash |-> <<>>]
\* fmt.Errorf(msg)
Errorf(msg) == [kind |-> "error", msg |-> msg, hash |-> <<>>]
\* HashNotFoundError{h}
HashNotFoundError(h) == [kind |-> "HashNotFoundError", msg |-> "", hash |-> <<h>>]

\* no panic is unwinding
NoPanic == ""
\* the run-time panic of l[i] with i >= len(l)
IndexOutOfRange == "runtime error: index out of range"
\* the run-time panic of calling a nil func value
NilFuncCall == "runtime error: invalid memory address or nil pointer dereference"

\* ------------------------------------------------------------------- URIs

IsCTL(b) == b < 32 \/ b = 127
IsHexDigit(b) == (b >= 48 /\ b <= 57) \/ (b >= 65 /\ b <= 70) \/ (b >= 97 /\ b <= 102)

\* url.Parse(raw): the URL, or an error for a control character or a
\* malformed percent escape.
urlParse(raw) ==
    IF \E i \in 1..Len(raw) : IsCTL(raw[i])
    THEN [url |-> <<>>, err |-> Errorf("net/url: invalid control character in URL")]
    ELSE IF \E i \in 1..Len(raw) :
                /\ raw[i] = 37
                /\ ~(i + 2 <= Len(raw) /\ IsHexDigit(raw[i + 1]) /\ IsHexDigit(raw[i + 2]))
    THEN [url |-> <<>>, err |-> Errorf("invalid URL escape")]
    ELSE [url |-> raw, err |-> NoErr]

\* the loop of EvalURIs over s[i], ..., with u the URIs parsed so far
RECURSIVE evalURIsLoop(_, _, _)
evalURIsLoop(s, i, u) ==
    IF i > Len(s)
    THEN [u |-> u, err |-> NoErr, panic |-> NoPanic]
    ELSE IF IsAtom(s[i])
    THEN LET p == urlParse(s[i].v) IN
         IF p.err # NoErr
         THEN [u |-> <<>>, err |-> p.err, panic |-> NoPanic]
         ELSE evalURIsLoop(s, i + 1, Append(u, p.url))
    ELSE [u |-> <<>>, err |-> Errorf("URI expected"), panic |-> NoPanic]

EvalURIs(s) ==
    IF IsList(s)
    THEN IF Len(s.l) > 1 /\ AtomEqual(urisAtom, s.l[1])
         THEN evalURIsLoop(s.l, 2, <<>>)
         ELSE [u |-> <<>>, err |-> NoErr, panic |-> "Can't reach here"]
    ELSE [u |-> <<>>, err |-> Errorf("S-expression not a list"), panic |-> NoPanic]

\* ------------------------------------------------------------------ Hash

\* Hash{}: the zero value
ZeroHash == [Algorithm |-> <<>>, Hash |-> <<>>, URIs |-> <<>>]

validHash(b) == b \in KnownHashes

\* a.Equal(b) with the URIs compared as well
HashEqual_WithURIs(a, b) == a.Algorithm = b.Algorithm /\ a.Hash = b.Hash /\ a.URIs = b.URIs

\* a.Equal(b) for hashes
HashEqual(a, b) == a.Algorithm = b.Algorithm /\ a.Hash = b.Hash

\* EvalHash that returns the algorithm and digest it has read when the
\* URIs are in error
EvalHash_KeepsHashOnURIError(s) ==
    IF /\ IsList(s)
       /\ Len(s.l) >= 3 /\ Len(s.l) < 5 /\ AtomEqual(hashAtom, s.l[1])
       /\ IsAtom(s.l[2]) /\ IsAtom(s.l[3]) /\ validHash(s.l[2].v)
    THEN LET h == [Algorithm |-> s.l[2].v, Hash |-> s.l[3].v, URIs |-> <<>>] IN
         IF Len(s.l) = 4
         THEN LET u == EvalURIs(s.l[4]) IN
              IF u.panic # NoPanic
              THEN [h |-> ZeroHash, err |-> NoErr, panic |-> u.panic]
              ELSE IF u.err # NoErr
              THEN [h |-> h, err |-> u.err, panic |-> NoPanic]
              ELSE [h |-> [h EXCEPT !.URIs = u.u], err |-> NoErr, panic |-> NoPanic]
         ELSE [h |-> h, err |-> NoErr, panic |-> NoPanic]
    ELSE [h |-> ZeroHash, err |-> Errorf("Invalid hash expression"), panic |-> NoPanic]

EvalHash(s) ==
    IF /\ IsList(s)
       /\ Len(s.l) >= 3 /\ Len(s.l) < 5 /\ AtomEqual(hashAtom, s.l[1])
       /\ IsAtom(s.l[2]) /\ IsAtom(s.l[3]) /\ validHash(s.l[2].v)
    THEN LET h == [Algorithm |-> s.l[2].v, Hash |-> s.l[3].v, URIs |-> <<>>] IN
         IF Len(s.l) = 4
         THEN LET u == EvalURIs(s.l[4]) IN
              IF u.panic # NoPanic
              THEN [h |-> ZeroHash, err |-> NoErr, panic |-> u.panic]
              ELSE IF u.err # NoErr
              THEN [h |-> ZeroHash, err |-> u.err, panic |-> NoPanic]
              ELSE [h |-> [h EXCEPT !.URIs = u.u], err |-> NoErr, panic |-> NoPanic]
         ELSE [h |-> h, err |-> NoErr, panic |-> NoPanic]
    ELSE [h |-> ZeroHash, err |-> Errorf("Invalid hash expression"), panic |-> NoPanic]

\* the registry as init() leaves it
InitKnownHashes == {B("sha256"), B("sha224"), B("sha512"), B("sha384")}

\* ------------------------------------------------------------ big integers

RECURSIVE SetBytes(_)
\* big.NewInt(0).SetBytes(b): b read as an unsigned big-endian integer
SetBytes(b) ==
    IF Len(b) = 0 THEN 0
    ELSE 256 * SetBytes(SubSeq(b, 1, Len(b) - 1)) + b[Len(b)]

RECURSIVE IntBytes(_)
\* n.Bytes(): the big-endian bytes of n, with no leading zero byte
IntBytes(n) ==
    IF n = 0 THEN <<>>
    ELSE Append(IntBytes(n \div 256), n % 256)

evalNamedBigInt(name, s) ==
    IF ~IsList(s) \/ Len(s.l) # 2
    THEN [n |-> <<>>, err |-> Errorf("Named big integer term must be a list (NAME OCTET-STRING)")]
    ELSE IF ~IsAtom(s.l[1]) \/ s.l[1].v # B(name)
    THEN [n |-> <<>>, err |-> Errorf("Expected term name")]
    ELSE IF ~IsAtom(s.l[2])
    THEN [n |-> <<>>, err |-> Errorf("Value in (NAME VALUE) must be an atom")]
    ELSE [n |-> <<SetBytes(s.l[2].v)>>, err |-> NoErr]

\* ------------------------------------------------------------------- keys

\* HashKey{}: no hashes
ZeroHashKey == [Hashes |-> <<>>]

\* new(PublicKey): no curve, no coordinates
ZeroPublicKey == [HashKey |-> ZeroHashKey, Curve |-> "", X |-> <<>>, Y |-> <<>>]
\* the zero PrivateKey
ZeroPrivateKey == [HashKey |-> ZeroHashKey, Curve |-> "", X |-> <<>>, Y |-> <<>>, D |-> <<>>]

evalCurve(l) ==
    IF ~IsList(l)
    THEN [curve |-> <<>>, err |-> Errorf("Curve must be a list"), panic |-> NoPanic]
    ELSE IF Len(l.l) < 1
    THEN [curve |-> <<>>, err |-> NoErr, panic |-> IndexOutOfRange]
    ELSE IF ~IsAtom(l.l[1]) \/ l.l[1].v # B("curve")
    THEN [curve |-> <<>>, err |-> Errorf("Curve must start with 'curve'"), panic |-> NoPanic]
    ELSE IF Len(l.l) < 2
    THEN [curve |-> <<>>, err |-> NoErr, panic |-> IndexOutOfRange]
    ELSE IF ~IsAtom(l.l[2])
    THEN [curve |-> <<>>, err |-> Errorf("Curve must be either p256 or p512"), panic |-> NoPanic]
    ELSE IF l.l[2].v # B("p256") /\ l.l[2].v # B("p512")
    THEN [curve |-> l.l[2].v, err |-> Errorf("Curve must be either p256 or p512"),
          panic |-> NoPanic]
    ELSE [curve |-> l.l[2].v, err |-> NoErr, panic |-> NoPanic]

\* the result of a public-key decoder: a *PublicKey, an error, a panic
PubResult(k, err, panic) == [k |-> k, err |-> err, panic |-> panic]

evalECDSA256PublicKeyTerms(l) ==
    LET c == evalCurve(l[2]) IN
    IF c.panic # NoPanic THEN PubResult(<<>>, NoErr, c.panic)
    ELSE IF c.err # NoErr THEN PubResult(<<>>, c.err, NoPanic)
    ELSE IF c.curve # B("p256") /\ c.curve # B("p384")
    THEN PubResult(<<>>, Errorf("Curve must be either 'p256' or 'p384'"), NoPanic)
    ELSE LET curve == IF c.curve = B("p256") THEN "P-256" ELSE "P-384"
             x == evalNamedBigInt("x", l[3])
             y == evalNamedBigInt("y", l[4])
         IN  IF x.err # NoErr THEN PubResult(<<>>, x.err, NoPanic)
             ELSE IF y.err # NoErr THEN PubResult(<<>>, y.err, NoPanic)
             ELSE PubResult(<<[ZeroPublicKey EXCEPT !.Curve = curve, !.X = x.n, !.Y = y.n]>>,
                            NoErr, NoPanic)

evalECDSAPublicKey(s) ==
    IF ~IsList(s)
    THEN PubResult(<<>>, Errorf("ECDSA key S-expression must be a list"), NoPanic)
    ELSE IF Len(s.l) # 4
    THEN PubResult(<<>>, Errorf("ECDSA key must have 4 elements"), NoPanic)
    ELSE IF AtomEqual(ecdsa256Atom, s.l[1])
    THEN evalECDSA256PublicKeyTerms(s.l)
    ELSE IF AtomEqual(ecdsa384Atom, s.l[1])
    THEN PubResult(<<>>, NoErr, "p384 not yet supported")
    ELSE PubResult(<<>>, Errorf("ECDSA key S-expression must start with 'ecdsa-sha2'"),
                   NoPanic)

EvalPublicKey(s) ==
    IF ~IsList(s)
    THEN PubResult(<<>>, Errorf("Key S-expression must be a list"), NoPanic)
    ELSE IF Len(s.l) < 1
    THEN PubResult(<<>>, NoErr, IndexOutOfRange)
    ELSE IF ~AtomEqual(publicKeyAtom, s.l[1])
    THEN PubResult(<<>>, Errorf("Key S-expression must start with 'public-key'"), NoPanic)
    ELSE IF Len(s.l) # 2
    THEN PubResult(<<>>, Errorf("Key S-expression must have two elements"), NoPanic)
    ELSE evalECDSAPublicKey(s.l[2])

\* the result of a private-key decoder: a PrivateKey value, an error, a panic
PrivResult(k, err, panic) == [k |-> k, err |-> err, panic |-> panic]

evalECDSASHA2PrivateKeyTerms(l) ==
    LET c == evalCurve(l[2]) IN
    IF c.panic # NoPanic THEN PrivResult(ZeroPrivateKey, NoErr, c.panic)
    ELSE IF c.err # NoErr THEN PrivResult(ZeroPrivateKey, c.err, NoPanic)
    ELSE IF c.curve # B("p256") /\ c.curve # B("p384")
    THEN PrivResult(ZeroPrivateKey, Errorf("Curve must be either 'p256' or 'p384'"), NoPanic)
    ELSE LET k0 == [ZeroPrivateKey EXCEPT
                        !.Curve = IF c.curve = B("p256") THEN "P-256" ELSE "P-384"]
             x == evalNamedBigInt("x", l[3])
             k1 == [k0 EXCEPT !.X = x.n]
             y == evalNamedBigInt("y", l[4])
             k2 == [k1 EXCEPT !.Y = y.n]
             d == evalNamedBigInt("d", l[5])
             k3 == [k2 EXCEPT !.D = d.n]
         IN  IF x.err # NoErr THEN PrivResult(k1, x.err, NoPanic)
             ELSE IF y.err # NoErr THEN PrivResult(k2, y.err, NoPanic)
             ELSE IF d.err # NoErr THEN PrivResult(k3, d.err, NoPanic)
             ELSE PrivResult(k3, NoErr, NoPanic)

evalECDSAPrivateKey(s) ==
    IF ~IsList(s)
    THEN PrivResult(ZeroPrivateKey, Errorf("ECDSA key S-expression must be a list"), NoPanic)
    ELSE IF Len(s.l) # 5
    THEN PrivResult(ZeroPrivateKey, Errorf("ECDSA key must have 5 elements"), NoPanic)
    ELSE IF AtomEqual(ecdsa256Atom, s.l[1])
    THEN evalECDSASHA2PrivateKeyTerms(s.l)
    ELSE IF AtomEqual(ecdsa384Atom, s.l[1])
    THEN PrivResult(ZeroPrivateKey, NoErr, "Can't reach here")
    ELSE PrivResult(ZeroPrivateKey,
                    Errorf("ECDSA key S-expression must start with 'ecdsa-sha2'"), NoPanic)

EvalPrivateKey(s) ==
    IF ~IsList(s)
    THEN PrivResult(ZeroPrivateKey, Errorf("Key S-expression must be a list"), NoPanic)
    ELSE IF Len(s.l) < 1
    THEN PrivResult(ZeroPrivateKey, NoErr, IndexOutOfRange)
    ELSE IF ~AtomEqual(privateKeyAtom, s.l[1])
    THEN PrivResult(ZeroPrivateKey, Errorf("Key S-expression must start with 'private-key'"),
                    NoPanic)
    ELSE IF Len(s.l) # 2
    THEN PrivResult(ZeroPrivateKey, Errorf("Key S-expression must have two elements"), NoPanic)
    ELSE evalECDSAPrivateKey(s.l[2])

\* -------------------------------------------------------------- signatures

\* the result of EvalSignature: a *Signature, an error, a panic, and the
\* hashes lookupFunc was called with, in order
SigResult(sig, err, panic, calls) == [sig |-> sig, err |-> err, panic |-> panic, calls |-> calls]

\* lookupFunc(h) for a non-nil lookupFunc: the key its table holds for h, or nil
Lookup(lookupFunc, h) ==
    LET hits == {i \in 1..Len(lookupFunc.table) : HashEqual(lookupFunc.table[i].hash, h)}
    IN  IF hits = {} THEN <<>>
        ELSE <<lookupFunc.table[CHOOSE i \in hits : \A j \in hits : i <= j].key>>

\* EvalSignature from the signature value on, with the hash and the
\* principal decoded
evalSignatureValue(l, hash, principal, calls) ==
    LET sigVal == l[4] IN
    IF ~IsList(sigVal) \/ Len(sigVal.l) # 3
    THEN SigResult(<<>>, Errorf("Signature value must be of the form (ecdsa-sha2 (r |...|) (s |...|))"),
                   NoPanic, calls)
    ELSE IF ~IsAtom(sigVal.l[1]) \/ sigVal.l[1].v # B("ecdsa-sha2")
    THEN SigResult(<<>>, Errorf("Signature ID must equal ecdsa-sha2"), NoPanic, calls)
    ELSE LET r == evalNamedBigInt("r", sigVal.l[2])
             s == evalNamedBigInt("s", sigVal.l[2])
         IN  IF r.err # NoErr THEN SigResult(<<>>, r.err, NoPanic, calls)
             ELSE IF s.err # NoErr THEN SigResult(<<>>, s.err, NoPanic, calls)
             ELSE SigResult(<<[Hash |-> hash, Principal |-> principal, R |-> r.n, S |-> s.n]>>,
                            NoErr, NoPanic, calls)

\* EvalSignature from the principal on, asking lookupFunc a second time
\* when it knows no key for the hash
evalSignaturePrincipal_Retries(l, hash, lookupFunc) ==
    LET principal == l[3]
        notEither == Errorf("Principal must be either a hash or a public key")
    IN
    IF ~IsList(principal) THEN SigResult(<<>>, notEither, NoPanic, <<>>)
    ELSE IF Len(principal.l) < 1 THEN SigResult(<<>>, NoErr, IndexOutOfRange, <<>>)
    ELSE IF ~IsAtom(principal.l[1]) THEN SigResult(<<>>, notEither, NoPanic, <<>>)
    ELSE IF principal.l[1].v = B("hash")
    THEN LET h == EvalHash(principal) IN
         IF h.panic # NoPanic THEN SigResult(<<>>, NoErr, h.panic, <<>>)
         ELSE IF h.err # NoErr THEN SigResult(<<>>, h.err, NoPanic, <<>>)
         ELSE IF lookupFunc.isNil THEN SigResult(<<>>, NoErr, NilFuncCall, <<>>)
         ELSE LET k == Lookup(lookupFunc, h.h) IN
              IF k = <<>>
              THEN SigResult(<<>>, HashNotFoundError(h.h), NoPanic, <<h.h, h.h>>)
              ELSE evalSignatureValue(l, hash, k, <<h.h>>)
    ELSE IF principal.l[1].v = B("public-key")
    THEN LET k == EvalPublicKey(principal) IN
         IF k.panic # NoPanic THEN SigResult(<<>>, NoErr, k.panic, <<>>)
         ELSE IF k.err # NoErr THEN SigResult(<<>>, k.err, NoPanic, <<>>)
         ELSE evalSignatureValue(l, hash, k.k, <<>>)
    ELSE SigResult(<<>>, notEither, NoPanic, <<>>)

\* EvalSignature from the principal on, with the hash decoded
evalSignaturePrincipal(l, hash, lookupFunc) ==
    LET principal == l[3]
        notEither == Errorf("Principal must be either a hash or a public key")
    IN
    IF ~IsList(principal) THEN SigResult(<<>>, notEither, NoPanic, <<>>)
    ELSE IF Len(principal.l) < 1 THEN SigResult(<<>>, NoErr, IndexOutOfRange, <<>>)
    ELSE IF ~IsAtom(principal.l[1]) THEN SigResult(<<>>, notEither, NoPanic, <<>>)
    ELSE IF principal.l[1].v = B("hash")
    THEN LET h == EvalHash(principal) IN
         IF h.panic # NoPanic THEN SigResult(<<>>, NoErr, h.panic, <<>>)
         ELSE IF h.err # NoErr THEN SigResult(<<>>, h.err, NoPanic, <<>>)
         ELSE IF lookupFunc.isNil THEN SigResult(<<>>, NoErr, NilFuncCall, <<>>)
         ELSE LET k == Lookup(lookupFunc, h.h) IN
              IF k = <<>>
              THEN SigResult(<<>>, HashNotFoundError(h.h), NoPanic, <<h.h>>)
              ELSE evalSignatureValue(l, hash, k, <<h.h>>)
    ELSE IF principal.l[1].v = B("public-key")
    THEN LET k == EvalPublicKey(principal) IN
         IF k.panic # NoPanic THEN SigResult(<<>>, NoErr, k.panic, <<>>)
         ELSE IF k.err # NoErr THEN SigResult(<<>>, k.err, NoPanic, <<>>)
         ELSE evalSignatureValue(l, hash, k.k, <<>>)
    ELSE SigResult(<<>>, notEither, NoPanic, <<>>)

EvalSignature(s, lookupFunc) ==
    IF ~IsList(s)
    THEN SigResult(<<>>, Errorf("Signature S-expression must be a list"), NoPanic, <<>>)
    ELSE IF Len(s.l) # 4 \/ ~AtomEqual(signatureAtom, s.l[1])
    THEN SigResult(<<>>, Errorf("Signature S-expression must be of the form (signature (hash sha256 |...|) PRINCIPAL (ecdsa |...| |...|))"),
                   NoPanic, <<>>)
    ELSE LET h == EvalHash(s.l[2]) IN
         IF h.panic # NoPanic THEN SigResult(<<>>, NoErr, h.panic, <<>>)
         ELSE IF h.err # NoErr THEN SigResult(<<>>, h.err, NoPanic, <<>>)
         ELSE evalSignaturePrincipal(s.l, h.h, lookupFunc)

\* ------------------------------------------- S-expression transport forms

\* the decimal digits of n
RECURSIVE Decimal(_)
Decimal(n) == IF n < 10 THEN <<48 + n>> ELSE Append(Decimal(n \div 10), 48 + (n % 10))

\* the concatenation of the byte strings of seq, sep between them
RECURSIVE Join(_, _)
Join(seq, sep) ==
    IF Len(seq) = 0 THEN <<>>
    ELSE IF Len(seq) = 1 THEN seq[1]
    ELSE seq[1] \o sep \o Join(Tail(seq), sep)

IsDigit(b) == b >= 48 /\ b <= 57
IsAlpha(b) == (b >= 65 /\ b <= 90) \/ (b >= 97 /\ b <= 122)
IsWhitespace(b) == b \in {9, 10, 11, 12, 13, 32}
\* the characters of a token: letters, digits and - . / _ : * + =
IsTokenChar(b) == IsDigit(b) \/ IsAlpha(b) \/ b \in {45, 46, 47, 95, 58, 42, 43, 61}
\* v can be written as a token: token characters, the first no digit
IsToken(v) == Len(v) > 0 /\ ~IsDigit(v[1]) /\ \A i \in 1..Len(v) : IsTokenChar(v[i])

\* the character of the base-64 digit d
Base64Char(d) ==
    IF d < 26 THEN 65 + d
    ELSE IF d < 52 THEN 97 + (d - 26)
    ELSE IF d < 62 THEN 48 + (d - 52)
    ELSE IF d = 62 THEN 43 ELSE 47

\* the base-64 digit of the character c, -1 if it is none
Base64Digit(c) ==
    IF c >= 65 /\ c <= 90 THEN c - 65
    ELSE IF c >= 97 /\ c <= 122 THEN c - 97 + 26
    ELSE IF c >= 48 /\ c <= 57 THEN c - 48 + 52
    ELSE IF c = 43 THEN 62
    ELSE IF c = 47 THEN 63 ELSE -1

\* base64.StdEncoding of v, padded with =
RECURSIVE Base64Encode(_)
Base64Encode(v) ==
    IF Len(v) = 0 THEN <<>>
    ELSE IF Len(v) = 1
    THEN <<Base64Char(v[1] \div 4), Base64Char((v[1] % 4) * 16), 61, 61>>
    ELSE IF Len(v) = 2
    THEN <<Base64Char(v[1] \div 4), Base64Char((v[1] % 4) * 16 + v[2] \div 16),
           Base64Char((v[2] % 16) * 4), 61>>
    ELSE <<Base64Char(v[1] \div 4), Base64Char((v[1] % 4) * 16 + v[2] \div 16),
           Base64Char((v[2] % 16) * 4 + v[3] \div 64), Base64Char(v[3] % 64)>>
         \o Base64Encode(SubSeq(v, 4, Len(v)))

\* the bytes base-64 text c stands for; ok is false for text that is no
\* padded base-64
RECURSIVE Base64Decode(_)
Base64Decode(c) ==
    IF Len(c) = 0 THEN [ok |-> TRUE, v |-> <<>>]
    ELSE IF Len(c) < 4 THEN [ok |-> FALSE, v |-> <<>>]
    ELSE LET d1 == Base64Digit(c[1])
             d2 == Base64Digit(c[2])
             d3 == Base64Digit(c[3])
             d4 == Base64Digit(c[4])
         IN  IF d1 < 0 \/ d2 < 0 THEN [ok |-> FALSE, v |-> <<>>]
             ELSE IF c[3] = 61
             THEN [ok |-> Len(c) = 4 /\ c[4] = 61, v |-> <<d1 * 4 + d2 \div 16>>]
             ELSE IF d3 < 0 THEN [ok |-> FALSE, v |-> <<>>]
             ELSE IF c[4] = 61
             THEN [ok |-> Len(c) = 4,
                   v |-> <<d1 * 4 + d2 \div 16, (d2 % 16) * 16 + d3 \div 4>>]
             ELSE IF d4 < 0 THEN [ok |-> FALSE, v |-> <<>>]
             ELSE LET rest == Base64Decode(SubSeq(c, 5, Len(c))) IN
                  [ok |-> rest.ok,
                   v |-> <<d1 * 4 + d2 \div 16, (d2 % 16) * 16 + d3 \div 4,
                           (d3 % 4) * 64 + d4>> \o rest.v]

\* the number the decimal digits c stand for
RECURSIVE SetDecimal(_)
SetDecimal(c) ==
    IF Len(c) = 0 THEN 0 ELSE 10 * SetDecimal(SubSeq(c, 1, Len(c) - 1)) + (c[Len(c)] - 48)

\* a byte string in canonical form: its length, a colon, its bytes
Verbatim(v) == Decimal(Len(v)) \o <<58>> \o v

\* s.Pack() for an atom or a list s: the canonical form
RECURSIVE Pack(_)
Pack(s) ==
    IF IsAtom(s)
    THEN (IF s.hint = <<>> THEN <<>> ELSE <<91>> \o Verbatim(s.hint) \o <<93>>) \o Verbatim(s.v)
    ELSE <<40>> \o Join([i \in 1..Len(s.l) |-> Pack(s.l[i])], <<>>) \o <<41>>

\* a byte string in advanced form: a token where it can be one, else base-64
\* between bars
Advanced(v) == IF IsToken(v) THEN v ELSE <<124>> \o Base64Encode(v) \o <<124>>

\* s.String() for an atom or a list s: the advanced form
RECURSIVE SexpString(_)
SexpString(s) ==
    IF IsAtom(s)
    THEN (IF s.hint = <<>> THEN <<>> ELSE <<91>> \o Advanced(s.hint) \o <<93>>) \o Advanced(s.v)
    ELSE <<40>> \o Join([i \in 1..Len(s.l) |-> SexpString(s.l[i])], <<32>>) \o <<41>>

\* the octets of each class the parser scans over
DigitChars == {c \in 0..255 : IsDigit(c)}
WhitespaceChars == {c \in 0..255 : IsWhitespace(c)}
TokenChars == {c \in 0..255 : IsTokenChar(c)}
NotBarChars == (0..255) \ {124}

\* the first position from i on of b whose octet is not in chars
RECURSIVE SkipWhile(_, _, _)
SkipWhile(chars, b, i) ==
    IF i <= Len(b) /\ b[i] \in chars THEN SkipWhile(chars, b, i + 1) ELSE i

\* the byte string that starts at position i of b, in either form: its
\* bytes and the position after it
ParseOctets(b, i) ==
    IF i > Len(b) THEN [ok |-> FALSE, v |-> <<>>, next |-> i]
    ELSE IF IsDigit(b[i])
    THEN LET colon == SkipWhile(DigitChars, b, i)
             n == SetDecimal(SubSeq(b, i, colon - 1))
         IN  IF colon > Len(b) \/ b[colon] # 58 \/ colon + n > Len(b)
             THEN [ok |-> FALSE, v |-> <<>>, next |-> i]
             ELSE [ok |-> TRUE, v |-> SubSeq(b, colon + 1, colon + n), next |-> colon + n + 1]
    ELSE IF b[i] = 124
    THEN LET bar == SkipWhile(NotBarChars, b, i + 1)
             d == Base64Decode(SubSeq(b, i + 1, bar - 1))
         IN  IF bar > Len(b) \/ ~d.ok
             THEN [ok |-> FALSE, v |-> <<>>, next |-> i]
             ELSE [ok |-> TRUE, v |-> d.v, next |-> bar + 1]
    ELSE IF IsTokenChar(b[i])
    THEN LET end == SkipWhile(TokenChars, b, i) IN
         [ok |-> TRUE, v |-> SubSeq(b, i, end - 1), next |-> end]
    ELSE [ok |-> FALSE, v |-> <<>>, next |-> i]

\* the expression that starts at position i of b, and the position after it
RECURSIVE ParseAt(_, _)
RECURSIVE ParseElements(_, _, _)
ParseAt(b, i) ==
    LET j == SkipWhile(WhitespaceChars, b, i) IN
    IF j > Len(b) THEN [ok |-> FALSE, sexp |-> NilSexp, next |-> j]
    ELSE IF b[j] = 40 THEN ParseElements(b, j + 1, <<>>)
    ELSE IF b[j] = 91
    THEN LET hint == ParseOctets(b, j + 1)
             value == ParseOctets(b, hint.next + 1)
         IN  IF ~hint.ok \/ hint.next > Len(b) \/ b[hint.next] # 93 \/ ~value.ok
             THEN [ok |-> FALSE, sexp |-> NilSexp, next |-> j]
             ELSE [ok |-> TRUE, sexp |-> AtomH(hint.v, value.v), next |-> value.next]
    ELSE LET value == ParseOctets(b, j) IN
         IF ~value.ok THEN [ok |-> FALSE, sexp |-> NilSexp, next |-> j]
         ELSE [ok |-> TRUE, sexp |-> Atom(value.v), next |-> value.next]

\* the elements of a list from position i of b to its closing parenthesis
ParseElements(b, i, elts) ==
    LET j == SkipWhile(WhitespaceChars, b, i) IN
    IF j > Len(b) THEN [ok |-> FALSE, sexp |-> NilSexp, next |-> j]
    ELSE IF b[j] = 41 THEN [ok |-> TRUE, sexp |-> List(elts), next |-> j + 1]
    ELSE LET e == ParseAt(b, j) IN
         IF ~e.ok THEN e ELSE ParseElements(b, e.next, Append(elts, e.sexp))

\* sexprs.Parse(b): the first expression of b, or an error
Parse(b) ==
    LET p == ParseAt(b, 1) IN
    [sexp |-> p.sexp, err |-> IF p.ok THEN NoErr ELSE Errorf("parse error")]

\* a.Equal(b) for expressions: the same structure
SexpEqual(a, b) == a = b

\* ---------------------------------------------------- private-key encoding

\* the name Sexp gives the curve of a key, none for any other curve
CurveAtomValue(curve) ==
    IF curve = "P-256" THEN B("p256") ELSE IF curve = "P-384" THEN B("p384") ELSE <<>>

\* k.Sexp() with the y term filled from k.X
PrivateKeySexp_YFromX(k) ==
    IF CurveAtomValue(k.Curve) = <<>> THEN NilSexp
    ELSE List(<<Atom(B("private-key")),
                List(<<Atom(B("ecdsa-sha2")),
                       List(<<Atom(B("curve")), Atom(CurveAtomValue(k.Curve))>>),
                       List(<<Atom(B("x")), Atom(IntBytes(k.X[1]))>>),
                       List(<<Atom(B("y")), Atom(IntBytes(k.X[1]))>>),
                       List(<<Atom(B("d")), Atom(IntBytes(k.D[1]))>>)>>)>>)

\* k.Sexp() for a PrivateKey k
PrivateKeySexp(k) ==
    IF CurveAtomValue(k.Curve) = <<>> THEN NilSexp
    ELSE List(<<Atom(B("private-key")),
                List(<<Atom(B("ecdsa-sha2")),
                       List(<<Atom(B("curve")), Atom(CurveAtomValue(k.Curve))>>),
                       List(<<Atom(B("x")), Atom(IntBytes(k.X[1]))>>),
                       List(<<Atom(B("y")), Atom(IntBytes(k.Y[1]))>>),
                       List(<<Atom(B("d")), Atom(IntBytes(k.D[1]))>>)>>)>>)

\* k.Pack() and k.String() for a PrivateKey k
PrivateKeyPack(k) == Pack(PrivateKeySexp(k))
PrivateKeyString(k) == SexpString(PrivateKeySexp(k))

\* ------------------------------------------------------------------ Valid

\* A *time.Time is nil (<<>>) or an instant <<t>>; instants are integers.
\* t.Before(u), t.After(u)
Before(t, u) == t < u
After(t, u) == t > u

\* Valid{NotBefore, NotAfter}
Valid(notBefore, notAfter) == [NotBefore |-> notBefore, NotAfter |-> notAfter]

\* the first switch of Intersect with the case of a nil v2.NotBefore
\* answering nil
IntersectNotBefore_DropsReceiver(v, v2) ==
    IF v.NotBefore = <<>> /\ v2.NotBefore = <<>> THEN <<>>
    ELSE IF v.NotBefore = <<>> THEN v2.NotBefore
    ELSE IF v2.NotBefore = <<>> THEN v2.NotBefore
    ELSE IF Before(v.NotBefore[1], v2.NotBefore[1]) THEN v2.NotBefore
    ELSE v.NotBefore

\* the first switch of Intersect: i.NotBefore
IntersectNotBefore(v, v2) ==
    IF v.NotBefore = <<>> /\ v2.NotBefore = <<>> THEN <<>>
    ELSE IF v.NotBefore = <<>> THEN v2.NotBefore
    ELSE IF v2.NotBefore = <<>> THEN v.NotBefore
    ELSE IF Before(v.NotBefore[1], v2.NotBefore[1]) THEN v2.NotBefore
    ELSE v.NotBefore

\* the second switch of Intersect with Before for After
IntersectNotAfter_TakesLater(v, v2) ==
    IF v.NotAfter = <<>> /\ v2.NotAfter = <<>> THEN <<>>
    ELSE IF v.NotAfter = <<>> THEN v2.NotAfter
    ELSE IF v2.NotAfter = <<>> THEN v.NotAfter
    ELSE IF Before(v.NotAfter[1], v2.NotAfter[1]) THEN v2.NotAfter
    ELSE v.NotAfter

\* the second switch of Intersect: i.NotAfter
IntersectNotAfter(v, v2) ==
    IF v.NotAfter = <<>> /\ v2.NotAfter = <<>> THEN <<>>
    ELSE IF v.NotAfter = <<>> THEN v2.NotAfter
    ELSE IF v2.NotAfter = <<>> THEN v.NotAfter
    ELSE IF After(v.NotAfter[1], v2.NotAfter[1]) THEN v2.NotAfter
    ELSE v.NotAfter

\* Intersect with an interval of one instant taken for empty
Intersect_EmptyWhenEqual(v, v2) ==
    LET i == Valid(IntersectNotBefore(v, v2), IntersectNotAfter(v, v2)) IN
    IF i.NotBefore # <<>> /\ i.NotAfter # <<>> /\ ~Before(i.NotBefore[1], i.NotAfter[1])
    THEN [nonEmpty |-> FALSE, i |-> Valid(<<>>, <<>>)]
    ELSE [nonEmpty |-> TRUE, i |-> i]

\* Intersect that returns the bounds of an empty intersection as they are
Intersect_KeepsEmptyBounds(v, v2) ==
    LET i == Valid(IntersectNotBefore(v, v2), IntersectNotAfter(v, v2)) IN
    IF i.NotBefore # <<>> /\ i.NotAfter # <<>> /\ After(i.NotBefore[1], i.NotAfter[1])
    THEN [nonEmpty |-> FALSE, i |-> i]
    ELSE [nonEmpty |-> TRUE, i |-> i]

\* v.Intersect(v2)
Intersect(v, v2) ==
    LET i == Valid(IntersectNotBefore(v, v2), IntersectNotAfter(v, v2)) IN
    IF i.NotBefore # <<>> /\ i.NotAfter # <<>> /\ After(i.NotBefore[1], i.NotAfter[1])
    THEN [nonEmpty |-> FALSE, i |-> Valid(<<>>, <<>>)]
    ELSE [nonEmpty |-> TRUE, i |-> i]

\* ------------------------------------------------- the caller of EvalHash

RECURSIVE ListsOver(_, _)
\* the sequences of length n whose i-th element is drawn from cand[i]
ListsOver(cand(_), n) ==
    IF n = 0 THEN {<<>>}
    ELSE {Append(l, e) : l \in ListsOver(cand, n - 1), e \in cand(n)}

\* what a caller may put where a (uris ...) list belongs
URIsInputs ==
    { List(<<urisAtom, Atom(B("http://a"))>>),
      List(<<urisAtom, Atom(B("http://a")), Atom(B("foo"))>>),
      List(<<urisAtom, Atom(B("%zz"))>>),
      List(<<urisAtom, Atom(<<7>>)>>),
      List(<<urisAtom, List(<<>>)>>),
      List(<<urisAtom>>),
      List(<<Atom(B("foo")), Atom(B("http://a"))>>),
      List(<<>>),
      Atom(B("http://a")),
      NilSexp }

\* what a caller may put at position i of a hash expression
HashInputAt(i) ==
    CASE i = 1 -> {hashAtom, Atom(B("foo")), AtomH(B("foo"), B("hash")), List(<<hashAtom>>)}
      [] i = 2 -> {Atom(B("sha256")), Atom(B("sha512")), Atom(B("md5")),
                   List(<<Atom(B("sha256"))>>)}
      [] i = 3 -> {Atom(<<>>), Atom(<<161, 178>>), List(<<Atom(<<161>>)>>)}
      [] i = 4 -> URIsInputs
      [] OTHER -> {Atom(B("foo"))}

HashInputs ==
    {NilSexp, hashAtom}
        \cup {List(l) : l \in UNION {ListsOver(HashInputAt, n) : n \in 0..MaxListLen}}

InitHash ==
    /\ KnownHashes = InitKnownHashes
    /\ pc = "call"
    /\ op = "none"
    /\ arg \in HashInputs
    /\ res = <<>>

CallEvalHash ==
    /\ pc = "call"
    /\ pc' = "done"
    /\ op' = "EvalHash"
    /\ res' = EvalHash(arg)
    /\ UNCHANGED <<KnownHashes, arg>>

NextHash == CallEvalHash

SpecHash == InitHash /\ [][NextHash]_vars

\* ------------------------------------------------------------------- C4

\* s is a (uris URI ...) list as the grammar has it: at least one entry,
\* every entry an atom that is a URL
WellFormedURIs(s) ==
    /\ IsList(s) /\ Len(s.l) >= 2 /\ AtomEqual(urisAtom, s.l[1])
    /\ \A i \in 2..Len(s.l) : IsAtom(s.l[i]) /\ urlParse(s.l[i].v).err = NoErr

\* s is (hash ALGORITHM DIGEST [URIS]) with a registered algorithm
WellFormedHash(s) ==
    /\ IsList(s) /\ Len(s.l) \in {3, 4}
    /\ AtomEqual(hashAtom, s.l[1])
    /\ IsAtom(s.l[2]) /\ s.l[2].v \in InitKnownHashes
    /\ IsAtom(s.l[3])
    /\ Len(s.l) = 4 => WellFormedURIs(s.l[4])

\* C4: EvalHash returns an error, and does not panic, for every input that
\* is not a well-formed hash expression.
C4_EvalHashRejectsMalformed ==
    (pc = "done" /\ op = "EvalHash" /\ ~WellFormedHash(arg))
        => (res.panic = NoPanic /\ res.err # NoErr)

\* ---------------------------------------- the caller of the key decoders

\* n copies of the byte b
Rep(b, n) == [i \in 1..n |-> b]

\* the octet strings a caller puts in an integer term: empty, all ones, a
\* leading zero, a trailing zero, of every length up to MaxIntBytes
OctetStrings ==
    {<<>>} \cup UNION {{Rep(255, n), <<0>> \o Rep(7, n - 1), <<1>> \o Rep(0, n - 1)} :
                         n \in 1..MaxIntBytes}

\* (name |octets|)
NamedTerm(name, octets) == List(<<Atom(B(name)), Atom(octets)>>)

\* (curve name)
CurveTerm(name) == List(<<Atom(B("curve")), Atom(B(name))>>)

CurveNames == {"p256", "p384", "p512", "p521", "foo"}

\* what a caller may put where the curve term belongs, besides (curve NAME)
BadCurveTerms ==
    { List(<<Atom(B("curve"))>>),
      List(<<>>),
      Atom(B("curve")),
      List(<<Atom(B("foo")), Atom(B("p256"))>>),
      List(<<Atom(B("curve")), List(<<Atom(B("p256"))>>)>>),
      List(<<Atom(B("curve")), Atom(B("p256")), Atom(B("foo"))>>) }

\* what a caller may put where the term (name |octets|) belongs, besides it
BadNamedTerms(name) ==
    { List(<<Atom(B(name))>>),
      List(<<Atom(B("foo")), Atom(<<1>>)>>),
      List(<<Atom(B(name)), List(<<Atom(<<1>>)>>)>>),
      List(<<Atom(B(name)), Atom(<<1>>), Atom(<<2>>)>>),
      Atom(B(name)) }

\* the bodies (ecdsa-sha2 CURVE X Y): every curve name with every pair of
\* octet strings, and every malformed term in an otherwise well-formed body
PublicKeyBodies ==
    {List(<<ecdsa256Atom, CurveTerm(c), NamedTerm("x", x), NamedTerm("y", y)>>) :
        c \in CurveNames, x \in OctetStrings, y \in OctetStrings}
    \cup {List(<<ecdsa256Atom, c, NamedTerm("x", <<1>>), NamedTerm("y", <<2>>)>>) :
            c \in BadCurveTerms}
    \cup {List(<<ecdsa256Atom, CurveTerm("p256"), x, NamedTerm("y", <<2>>)>>) :
            x \in BadNamedTerms("x") \cup {NamedTerm("y", <<1>>)}}
    \cup {List(<<ecdsa256Atom, CurveTerm("p256"), NamedTerm("x", <<1>>), y>>) :
            y \in BadNamedTerms("y") \cup {NamedTerm("x", <<2>>)}}
    \cup {List(<<lead, CurveTerm("p256"), NamedTerm("x", <<1>>), NamedTerm("y", <<2>>)>>) :
            lead \in {Atom(B("foo")), AtomH(B("foo"), B("ecdsa-sha2")), List(<<>>)}}
    \cup {List(<<ecdsa256Atom, CurveTerm("p256"), NamedTerm("x", <<1>>)>>),
          List(<<>>), ecdsa256Atom}

\* the bodies (ecdsa-sha2 CURVE X Y D), likewise
PrivateKeyBodies ==
    {List(<<ecdsa256Atom, CurveTerm(c), NamedTerm("x", x), NamedTerm("y", y),
            NamedTerm("d", d)>>) :
        c \in CurveNames, x \in OctetStrings, y \in OctetStrings, d \in OctetStrings}
    \cup {List(<<ecdsa256Atom, c, NamedTerm("x", <<1>>), NamedTerm("y", <<2>>),
                 NamedTerm("d", <<3>>)>>) : c \in BadCurveTerms}
    \cup {List(<<ecdsa256Atom, CurveTerm("p256"), NamedTerm("x", <<1>>),
                 NamedTerm("y", <<2>>), d>>) :
            d \in BadNamedTerms("d") \cup {NamedTerm("x", <<3>>)}}
    \cup {List(<<lead, CurveTerm("p256"), NamedTerm("x", <<1>>), NamedTerm("y", <<2>>),
                 NamedTerm("d", <<3>>)>>) : lead \in {Atom(B("foo")), List(<<>>)}}

KeyInputs ==
    {NilSexp, publicKeyAtom, List(<<>>), List(<<publicKeyAtom>>), List(<<privateKeyAtom>>)}
    \cup {List(<<lead, body>>) :
            lead \in {publicKeyAtom, privateKeyAtom, Atom(B("foo"))},
            body \in PublicKeyBodies \cup PrivateKeyBodies}
    \cup {List(<<publicKeyAtom, body, Atom(B("foo"))>>) : body \in PublicKeyBodies}

InitKey ==
    /\ KnownHashes = InitKnownHashes
    /\ pc = "call"
    /\ op = "none"
    /\ arg \in KeyInputs
    /\ res = <<>>

CallEvalPublicKey ==
    /\ pc = "call"
    /\ pc' = "done"
    /\ op' = "EvalPublicKey"
    /\ res' = EvalPublicKey(arg)
    /\ UNCHANGED <<KnownHashes, arg>>

CallEvalPrivateKey ==
    /\ pc = "call"
    /\ pc' = "done"
    /\ op' = "EvalPrivateKey"
    /\ res' = EvalPrivateKey(arg)
    /\ UNCHANGED <<KnownHashes, arg>>

NextKey == CallEvalPublicKey \/ CallEvalPrivateKey

SpecKey == InitKey /\ [][NextKey]_vars

\* ------------------------------------------------------------- C5 and C6

\* s is the list (name ATOM) of two atoms without display hints
IsNamedAtomTerm(s, name) ==
    /\ IsList(s) /\ Len(s.l) = 2
    /\ s.l[1] = Atom(B(name))
    /\ IsAtom(s.l[2]) /\ s.l[2].hint = <<>>

\* s is (lead (ecdsa-sha2 (curve NAME) (x X) (y Y) ...)) with the terms named
\* in names after the curve term
WellFormedKey(s, lead, names) ==
    /\ IsList(s) /\ Len(s.l) = 2
    /\ s.l[1] = lead
    /\ IsList(s.l[2]) /\ Len(s.l[2].l) = 2 + Len(names)
    /\ s.l[2].l[1] = Atom(B("ecdsa-sha2"))
    /\ IsNamedAtomTerm(s.l[2].l[2], "curve")
    /\ \A i \in 1..Len(names) : IsNamedAtomTerm(s.l[2].l[2 + i], names[i])

WellFormedPublicKey(s) == WellFormedKey(s, publicKeyAtom, <<"x", "y">>)
WellFormedPrivateKey(s) == WellFormedKey(s, privateKeyAtom, <<"x", "y", "d">>)

\* C5: EvalPublicKey and EvalPrivateKey return an error, and do not panic,
\* for every input that violates the structure of a key expression.
C5_KeyDecodersRejectMalformed ==
    /\ (pc = "done" /\ op = "EvalPublicKey" /\ ~WellFormedPublicKey(arg))
            => (res.panic = NoPanic /\ res.err # NoErr)
    /\ (pc = "done" /\ op = "EvalPrivateKey" /\ ~WellFormedPrivateKey(arg))
            => (res.panic = NoPanic /\ res.err # NoErr)

\* the octets b as an unsigned integer, most significant octet first
Unsigned(b) ==
    LET pow[i \in 0..Len(b)] == IF i = 0 THEN 1 ELSE 256 * pow[i - 1]
        sum[i \in 0..Len(b)] == IF i = 0 THEN 0 ELSE sum[i - 1] + b[i] * pow[Len(b) - i]
    IN  sum[Len(b)]

\* the curve the grammar gives the name
CurveNamed(name) ==
    IF name = B("p256") THEN "P-256" ELSE IF name = B("p384") THEN "P-384" ELSE ""

\* the octets of term i of the body of key expression s
TermOctets(s, i) == s.l[2].l[i].l[2].v

\* C6: a well-formed key expression decodes exactly when its curve is p256 or
\* p384, to the key on that curve with the integers of its terms; every other
\* curve name is an error.
C6_KeyDecodesOnP256AndP384 ==
    /\ (pc = "done" /\ op = "EvalPublicKey" /\ WellFormedPublicKey(arg)) =>
          /\ res.panic = NoPanic
          /\ IF CurveNamed(TermOctets(arg, 2)) # ""
             THEN /\ res.err = NoErr
                  /\ Len(res.k) = 1
                  /\ res.k[1].Curve = CurveNamed(TermOctets(arg, 2))
                  /\ res.k[1].X = <<Unsigned(TermOctets(arg, 3))>>
                  /\ res.k[1].Y = <<Unsigned(TermOctets(arg, 4))>>
             ELSE res.err # NoErr
    /\ (pc = "done" /\ op = "EvalPrivateKey" /\ WellFormedPrivateKey(arg)) =>
          /\ res.panic = NoPanic
          /\ IF CurveNamed(TermOctets(arg, 2)) # ""
             THEN /\ res.err = NoErr
                  /\ res.k.Curve = CurveNamed(TermOctets(arg, 2))
                  /\ res.k.X = <<Unsigned(TermOctets(arg, 3))>>
                  /\ res.k.Y = <<Unsigned(TermOctets(arg, 4))>>
                  /\ res.k.D = <<Unsigned(TermOctets(arg, 5))>>
             ELSE res.err # NoErr

\* ------------------------------------------- the caller of EvalSignature

\* (hash algorithm |digest|)
HashTerm(algorithm, digest) == List(<<hashAtom, Atom(B(algorithm)), Atom(digest)>>)

\* (public-key (ecdsa-sha2 (curve name) (x |x|) (y |y|)))
PublicKeyTerm(name, x, y) ==
    List(<<publicKeyAtom,
           List(<<ecdsa256Atom, CurveTerm(name), NamedTerm("x", x), NamedTerm("y", y)>>)>>)

\* two digests and two keys the callers know
Digest1 == <<161, 178>>
Digest2 == <<195>>
Key1 == [ZeroPublicKey EXCEPT !.Curve = "P-256", !.X = <<1>>, !.Y = <<2>>]
Key2 == [ZeroPublicKey EXCEPT !.Curve = "P-384", !.X = <<258>>, !.Y = <<0>>]

\* the hash a caller's table is keyed by
HashOf(algorithm, digest) == [Algorithm |-> B(algorithm), Hash |-> digest, URIs |-> <<>>]

\* the lookup functions a caller passes: nil, one that knows no hash, and
\* tables of known hashes
LookupFuncs ==
    { [isNil |-> TRUE, table |-> <<>>],
      [isNil |-> FALSE, table |-> <<>>],
      [isNil |-> FALSE, table |-> <<[hash |-> HashOf("sha256", Digest1), key |-> Key1]>>],
      [isNil |-> FALSE, table |-> <<[hash |-> HashOf("sha256", Digest2), key |-> Key1],
                                    [hash |-> HashOf("sha256", Digest1), key |-> Key2],
                                    [hash |-> HashOf("sha512", Digest1), key |-> Key1]>>] }

SigHashInputs == {HashTerm("sha256", Digest1), HashTerm("md5", Digest1), hashAtom}

SigPrincipalInputs ==
    { HashTerm("sha256", Digest1),
      HashTerm("sha256", Digest2),
      HashTerm("md5", Digest1),
      List(<<hashAtom, Atom(B("sha512")), Atom(Digest1),
             List(<<urisAtom, Atom(B("http://a"))>>)>>),
      List(<<hashAtom, Atom(B("sha256")), Atom(Digest1), List(<<urisAtom>>)>>),
      List(<<AtomH(B("foo"), B("hash")), Atom(B("sha256")), Atom(Digest1)>>),
      PublicKeyTerm("p256", <<1>>, <<2>>),
      PublicKeyTerm("p384", <<1>>, <<2>>),
      List(<<publicKeyAtom>>),
      List(<<Atom(B("foo")), Atom(B("foo"))>>),
      List(<<List(<<hashAtom>>)>>),
      List(<<>>),
      hashAtom }

SigValueInputs ==
    {List(<<ecdsa256Atom, NamedTerm("r", a), NamedTerm("s", b)>>) :
        a \in OctetStrings, b \in OctetStrings}
    \cup { List(<<ecdsa256Atom, NamedTerm("s", <<1>>), NamedTerm("r", <<2>>)>>),
           List(<<ecdsa256Atom, NamedTerm("r", <<1>>), NamedTerm("r", <<2>>)>>),
           List(<<ecdsa256Atom, NamedTerm("s", <<1>>), NamedTerm("s", <<2>>)>>),
           List(<<ecdsa256Atom, NamedTerm("r", <<1>>)>>),
           List(<<Atom(B("foo")), NamedTerm("r", <<1>>), NamedTerm("s", <<2>>)>>),
           List(<<ecdsa256Atom, List(<<Atom(B("r")), List(<<>>)>>), NamedTerm("s", <<2>>)>>),
           List(<<>>),
           ecdsa256Atom }

\* a signature expression cut or padded to n elements
Resized(l, n) == [i \in 1..n |-> IF i <= Len(l) THEN l[i] ELSE Atom(B("foo"))]

SignatureInputs ==
    {List(<<signatureAtom, h, p, v>>) :
        h \in SigHashInputs, p \in SigPrincipalInputs, v \in SigValueInputs}
    \cup {List(Resized(<<lead, HashTerm("sha256", Digest1), HashTerm("sha256", Digest1),
                         List(<<ecdsa256Atom, NamedTerm("r", <<1>>), NamedTerm("s", <<2>>)>>)>>,
                       n)) :
            lead \in {signatureAtom, Atom(B("foo"))}, n \in 0..MaxListLen}
    \cup {NilSexp, signatureAtom}

InitSignature ==
    /\ KnownHashes = InitKnownHashes
    /\ pc = "call"
    /\ op = "none"
    /\ arg \in [s : SignatureInputs, lookupFunc : LookupFuncs]
    /\ res = <<>>

CallEvalSignature ==
    /\ pc = "call"
    /\ pc' = "done"
    /\ op' = "EvalSignature"
    /\ res' = EvalSignature(arg.s, arg.lookupFunc)
    /\ UNCHANGED <<KnownHashes, arg>>

NextSignature == CallEvalSignature

SpecSignature == InitSignature /\ [][NextSignature]_vars

\* --------------------------------------------------------- C1, C2 and C3

\* s is (ecdsa-sha2 (r A) (s B))
WellFormedSigValue(s) ==
    /\ IsList(s) /\ Len(s.l) = 3
    /\ s.l[1] = Atom(B("ecdsa-sha2"))
    /\ IsNamedAtomTerm(s.l[2], "r")
    /\ IsNamedAtomTerm(s.l[3], "s")

\* s is (signature HASH PRINCIPAL SIGVAL) with a well-formed HASH
SignatureShape(s) ==
    /\ IsList(s) /\ Len(s.l) = 4
    /\ s.l[1] = signatureAtom
    /\ WellFormedHash(s.l[2])

\* the hash a well-formed hash expression s names
NamedHash(s) == [Algorithm |-> s.l[2].v, Hash |-> s.l[3].v]

\* what a caller's lookup answers for hash h: none when the function is
\* absent or knows no key for h
Resolved(lookupFunc, h) ==
    IF lookupFunc.isNil THEN <<>>
    ELSE LET known == {i \in 1..Len(lookupFunc.table) :
                          /\ lookupFunc.table[i].hash.Algorithm = h.Algorithm
                          /\ lookupFunc.table[i].hash.Hash = h.Hash}
         IN  IF known = {} THEN <<>>
             ELSE <<lookupFunc.table[CHOOSE i \in known : \A j \in known : i <= j].key>>

\* C1: when the principal is a well-formed hash expression and the lookup is
\* nil or returns nil for that hash, EvalSignature returns no Signature and a
\* HashNotFoundError carrying the hash, and does not panic.
C1_UnresolvedHashIsHashNotFound ==
    ( /\ pc = "done" /\ op = "EvalSignature"
      /\ SignatureShape(arg.s)
      /\ WellFormedHash(arg.s.l[3])
      /\ Resolved(arg.lookupFunc, NamedHash(arg.s.l[3])) = <<>> )
    => /\ res.panic = NoPanic
       /\ res.sig = <<>>
       /\ res.err.kind = "HashNotFoundError"
       /\ HashEqual(res.err.hash[1], NamedHash(arg.s.l[3]))

\* C2: for a well-formed signature expression whose principal is a hash the
\* lookup resolves to a key K, EvalSignature succeeds and the Signature's
\* principal is K.
C2_ResolvedHashIsPrincipal ==
    ( /\ pc = "done" /\ op = "EvalSignature"
      /\ SignatureShape(arg.s)
      /\ WellFormedHash(arg.s.l[3])
      /\ WellFormedSigValue(arg.s.l[4])
      /\ Resolved(arg.lookupFunc, NamedHash(arg.s.l[3])) # <<>> )
    => /\ res.panic = NoPanic
       /\ res.err = NoErr
       /\ Len(res.sig) = 1
       /\ res.sig[1].Principal = Resolved(arg.lookupFunc, NamedHash(arg.s.l[3]))

\* C3: for a well-formed signature expression with signature value
\* (ecdsa-sha2 (r A) (s B)) and a principal that resolves, the Signature has
\* R = A and S = B as unsigned integers.
C3_RAndSFromTheirOwnTerms ==
    ( /\ pc = "done" /\ op = "EvalSignature"
      /\ SignatureShape(arg.s)
      /\ WellFormedSigValue(arg.s.l[4])
      /\ \/ /\ WellFormedHash(arg.s.l[3])
            /\ Resolved(arg.lookupFunc, NamedHash(arg.s.l[3])) # <<>>
         \/ /\ WellFormedPublicKey(arg.s.l[3])
            /\ TermOctets(arg.s.l[3], 2) = B("p256") )
    => /\ res.panic = NoPanic
       /\ res.err = NoErr
       /\ Len(res.sig) = 1
       /\ res.sig[1].R = <<Unsigned(arg.s.l[4].l[2].l[2].v)>>
       /\ res.sig[1].S = <<Unsigned(arg.s.l[4].l[3].l[2].v)>>

\* ------------------------------------------------ the caller of Intersect

\* a bound: absent, or an instant
Bounds == {<<>>} \cup {<<t>> : t \in 0..MaxTime}

\* every Valid a caller can build, the ones with NotBefore after NotAfter
\* included
Valids == {Valid(nb, na) : nb \in Bounds, na \in Bounds}

InitValid ==
    /\ KnownHashes = InitKnownHashes
    /\ pc = "call"
    /\ op = "none"
    /\ arg \in [v : Valids, v2 : Valids]
    /\ res = <<>>

CallIntersect ==
    /\ pc = "call"
    /\ pc' = "done"
    /\ op' = "Intersect"
    /\ res' = Intersect(arg.v, arg.v2)
    /\ UNCHANGED <<KnownHashes, arg>>

NextValid == CallIntersect

SpecValid == InitValid /\ [][NextValid]_vars

\* -------------------------------------------------------- C8, C9 and C10

\* C8: Intersect is commutative: v.Intersect(v2) and v2.Intersect(v) return
\* the same flag and the same bounds.
C8_IntersectCommutes ==
    (pc = "done" /\ op = "Intersect") => res = Intersect(arg.v2, arg.v)

\* an interval with both bounds was intersected with one that has no
\* NotBefore, and the intersection is not empty
C8_Witness ==
    /\ pc = "done" /\ op = "Intersect"
    /\ arg.v # arg.v2
    /\ arg.v.NotBefore # <<>> /\ arg.v.NotAfter # <<>>
    /\ arg.v2.NotBefore = <<>> /\ arg.v2.NotAfter # <<>>
    /\ res.nonEmpty

\* v has both bounds and its NotBefore is after its NotAfter
Inverted(v) == v.NotBefore # <<>> /\ v.NotAfter # <<>> /\ v.NotBefore[1] > v.NotAfter[1]

\* C9 as stated: v.Intersect(v) is (true, v) for every v, one whose
\* NotBefore is later than its NotAfter included.
C9_SelfIntersectIsIdentity ==
    (pc = "done" /\ op = "Intersect" /\ arg.v = arg.v2)
        => (res.nonEmpty /\ res.i = arg.v)

\* C9, amended: v.Intersect(v) is (true, v) unless v has both bounds with
\* NotBefore later than NotAfter, and then it is (false, no bounds).
C9_SelfIntersectUnlessInverted ==
    (pc = "done" /\ op = "Intersect" /\ arg.v = arg.v2)
        => IF Inverted(arg.v)
           THEN ~res.nonEmpty /\ res.i = Valid(<<>>, <<>>)
           ELSE res.nonEmpty /\ res.i = arg.v

\* an interval of a single instant was intersected with itself
C9_Witness ==
    /\ pc = "done" /\ op = "Intersect"
    /\ arg.v = arg.v2
    /\ arg.v.NotBefore # <<>> /\ arg.v.NotBefore = arg.v.NotAfter
    /\ res.nonEmpty

\* the latest of the instants in bounds, none if there is none
Latest(bounds) ==
    LET ts == {b[1] : b \in bounds \ {<<>>}} IN
    IF ts = {} THEN <<>> ELSE <<CHOOSE t \in ts : \A u \in ts : u <= t>>

\* the earliest of the instants in bounds, none if there is none
Earliest(bounds) ==
    LET ts == {b[1] : b \in bounds \ {<<>>}} IN
    IF ts = {} THEN <<>> ELSE <<CHOOSE t \in ts : \A u \in ts : t <= u>>

\* the instants 2014-01-01, 2014-06-01, 2014-12-31, 2015-01-01, 2015-06-01 in
\* their order
Jan2014 == <<0>>
Jun2014 == <<1>>
Dec2014 == <<2>>
Jan2015 == <<3>>
Jun2015 == <<4>>

\* C10: Intersect returns the later NotBefore and the earlier NotAfter, an
\* absent bound being unbounded; it returns (false, no bounds) exactly when
\* both are present and the lower is after the upper, so equal bounds are
\* non-empty; and the two dated examples come out as stated.
C10_IntersectIsLaterAndEarlier ==
    (pc = "done" /\ op = "Intersect") =>
        LET lower == Latest({arg.v.NotBefore, arg.v2.NotBefore})
            upper == Earliest({arg.v.NotAfter, arg.v2.NotAfter})
        IN  /\ IF lower # <<>> /\ upper # <<>> /\ lower[1] > upper[1]
               THEN ~res.nonEmpty /\ res.i = Valid(<<>>, <<>>)
               ELSE res.nonEmpty /\ res.i = Valid(lower, upper)
            /\ (arg.v = Valid(Jan2014, Dec2014) /\ arg.v2 = Valid(Jun2014, Jun2015))
                  => res = [nonEmpty |-> TRUE, i |-> Valid(Jun2014, Dec2014)]
            /\ (arg.v = Valid(Jun2014, Dec2014) /\ arg.v2 = Valid(Jan2015, <<>>))
                  => ~res.nonEmpty

\* two different intervals were intersected to a single instant
C10_Witness ==
    /\ pc = "done" /\ op = "Intersect"
    /\ arg.v.NotBefore # arg.v2.NotBefore /\ arg.v.NotAfter # arg.v2.NotAfter
    /\ arg.v.NotBefore # <<>> /\ arg.v2.NotBefore # <<>>
    /\ arg.v.NotAfter # <<>> /\ arg.v2.NotAfter # <<>>
    /\ res.nonEmpty
    /\ res.i.NotBefore = res.i.NotAfter

\* ------------------------------------- the caller of the key round trip

\* octet strings that read as text: letters, and a parenthesis with colons
TextOctets == UNION {{Rep(65, n), <<40>> \o Rep(58, n - 1)} : n \in 1..MaxIntBytes}

\* the integers a key holds
KeyInts == {SetBytes(b) : b \in OctetStrings \cup TextOctets}

\* the private keys of the two curves
PrivateKeys ==
    {[ZeroPrivateKey EXCEPT !.Curve = c, !.X = <<x>>, !.Y = <<y>>, !.D = <<d>>] :
        c \in {"P-256", "P-384"}, x \in KeyInts, y \in KeyInts, d \in KeyInts}

InitRoundTrip ==
    /\ KnownHashes = InitKnownHashes
    /\ pc = "call"
    /\ op = "none"
    /\ arg \in PrivateKeys
    /\ res = <<>>

\* the key is rendered as text and as packed bytes, both are parsed, and
\* the parsed text is decoded
CallKeyRoundTrip ==
    /\ pc = "call"
    /\ pc' = "done"
    /\ op' = "KeyRoundTrip"
    /\ LET string_key == Parse(PrivateKeyString(arg))
           byte_key == Parse(PrivateKeyPack(arg))
       IN  res' = [string_key |-> string_key,
                   byte_key |-> byte_key,
                   eval_key |-> EvalPrivateKey(string_key.sexp)]
    /\ UNCHANGED <<KnownHashes, arg>>

NextRoundTrip == CallKeyRoundTrip

SpecRoundTrip == InitRoundTrip /\ [][NextRoundTrip]_vars

\* ------------------------------------------------------------------- C7

\* C7: for every P-256 private key, parsing its text and parsing its packed
\* bytes give equal expressions, and decoding that expression succeeds with
\* the key's X, Y and D.
C7_P256KeyRoundTrip ==
    (pc = "done" /\ op = "KeyRoundTrip" /\ arg.Curve = "P-256") =>
        /\ res.string_key.err = NoErr
        /\ res.byte_key.err = NoErr
        /\ SexpEqual(res.string_key.sexp, res.byte_key.sexp)
        /\ res.eval_key.panic = NoPanic
        /\ res.eval_key.err = NoErr
        /\ res.eval_key.k.X = arg.X
        /\ res.eval_key.k.Y = arg.Y
        /\ res.eval_key.k.D = arg.D

\* a P-256 key with three different coordinates, one of several bytes and
\* one zero, went round
C7_Witness ==
    /\ pc = "done" /\ op = "KeyRoundTrip" /\ arg.Curve = "P-256"
    /\ arg.X[1] > 255 /\ arg.Y[1] = 0 /\ arg.D[1] \notin {arg.X[1], arg.Y[1]}
    /\ res.eval_key.k.D = arg.D

\* ----------------------------------------------------------------- digests

\* the last n elements of s
Last(s, n) == SubSeq(s, Len(s) - n + 1, Len(s))

\* s back to front
RECURSIVE Reverse(_)
Reverse(s) == IF Len(s) = 0 THEN <<>> ELSE Append(Reverse(Tail(s)), Head(s))

\* KnownHashes[algorithm]() written with msg and summed: a collision-free
\* stand-in for the SHA-2 digests, different for each algorithm and message
Sum(algorithm, msg) == Last(algorithm, 3) \o Reverse(msg)

\* --------------------------------------------------------- key capabilities

\* a Key interface value holding a HashKey, a *PublicKey or a *PrivateKey
AsKey(type, k, d) ==
    <<[type |-> type, HashKey |-> k.HashKey, Curve |-> k.Curve, X |-> k.X, Y |-> k.Y, D |-> d]>>
HashKeyAsKey(h) == AsKey("HashKey", [ZeroPublicKey EXCEPT !.HashKey = h], <<>>)
PublicKeyAsKey(k) == AsKey("PublicKey", k, <<>>)
PrivateKeyAsKey(k) == AsKey("PrivateKey", k, k.D)
\* the nil Key
NilKey == <<>>

\* what HashExp returns: a Hash, an error, or the panic that unwound it
HashResult(hash, err, panic) == [hash |-> hash, err |-> err, panic |-> panic]

RECURSIVE HashKeyScan(_, _, _)
\* the first of hashes[i..] under algorithm
HashKeyScan(hashes, algorithm, i) ==
    IF i > Len(hashes)
    THEN HashResult(ZeroHash, Errorf("No hash found for algorithm"), NoPanic)
    ELSE IF hashes[i].Algorithm = algorithm
    THEN HashResult(hashes[i], NoErr, NoPanic)
    ELSE HashKeyScan(hashes, algorithm, i + 1)

\* h.HashExp(algorithm) for a HashKey h
HashKeyHashExp(h, algorithm) == HashKeyScan(h.Hashes, algorithm, 1)

\* k.Sexp() for a PublicKey k; it panics on a curve other than P-256, P-384
PublicKeySexp(k) ==
    IF CurveAtomValue(k.Curve) = <<>>
    THEN [sexp |-> NilSexp, panic |-> "Bad curve value"]
    ELSE [sexp |-> List(<<Atom(B("public-key")),
                          List(<<Atom(B("ecdsa-sha2")),
                                 List(<<Atom(B("curve")), Atom(CurveAtomValue(k.Curve))>>),
                                 List(<<Atom(B("x")), Atom(IntBytes(k.X[1]))>>),
                                 List(<<Atom(B("y")), Atom(IntBytes(k.Y[1]))>>)>>)>>),
          panic |-> NoPanic]

\* k.Pack() for a PublicKey k
PublicKeyPack(k) ==
    LET s == PublicKeySexp(k) IN
    [bytes |-> IF s.panic = NoPanic THEN Pack(s.sexp) ELSE <<>>, panic |-> s.panic]

\* k.HashedExpr(algorithm) for a PublicKey k
PublicKeyHashedExpr(k, algorithm) ==
    LET cached == HashKeyHashExp(k.HashKey, algorithm)
        packed == PublicKeyPack(k)
    IN  IF cached.err # NoErr THEN HashResult(cached.hash, NoErr, NoPanic)
        ELSE IF algorithm \notin KnownHashes
        THEN HashResult(cached.hash, Errorf("Unknown hash algorithm"), NoPanic)
        ELSE IF packed.panic # NoPanic THEN HashResult(ZeroHash, NoErr, packed.panic)
        ELSE HashResult([cached.hash EXCEPT !.Algorithm = algorithm,
                                            !.Hash = Sum(algorithm, packed.bytes)],
                        NoErr, NoPanic)

\* k.PublicKey() for a PrivateKey k that is not nil: a new PublicKey with
\* the curve and the point of k
PrivateKeyPublicKey(k) == [ZeroPublicKey EXCEPT !.Curve = k.Curve, !.X = k.X, !.Y = k.Y]

\* k.HashExp(algorithm) for a PrivateKey k
PrivateKeyHashExp(k, algorithm) ==
    LET cached == HashKeyHashExp(k.HashKey, algorithm)
        packed == PublicKeyPack(PrivateKeyPublicKey(k))
    IN  IF cached.err # NoErr THEN HashResult(cached.hash, cached.err, NoPanic)
        ELSE IF algorithm \notin KnownHashes
        THEN HashResult(cached.hash, Errorf("Unknown hash algorithm"), NoPanic)
        ELSE IF packed.panic # NoPanic THEN HashResult(ZeroHash, NoErr, packed.panic)
        ELSE HashResult([cached.hash EXCEPT !.Algorithm = algorithm,
                                            !.Hash = Sum(algorithm, packed.bytes)],
                        NoErr, NoPanic)

\* k.HashExp(algorithm) for a Key k that is not nil, by its dynamic type
KeyHashExp(k, algorithm) ==
    IF k[1].type = "PrivateKey" THEN PrivateKeyHashExp(k[1], algorithm)
    ELSE IF k[1].type = "PublicKey" THEN PublicKeyHashedExpr(k[1], algorithm)
    ELSE HashKeyHashExp(k[1].HashKey, algorithm)

RECURSIVE PrivateKeyEqualScan(_, _, _, _)
\* the loop of Equal over the algorithms order[i..]
PrivateKeyEqualScan(k, k2, order, i) ==
    IF i > Len(order) THEN [eq |-> FALSE, panic |-> NoPanic]
    ELSE LET hash1 == PrivateKeyHashExp(k, order[i])
             hash2 == KeyHashExp(k2, order[i])
         IN  IF hash1.panic # NoPanic THEN [eq |-> FALSE, panic |-> hash1.panic]
             ELSE IF hash2.panic # NoPanic THEN [eq |-> FALSE, panic |-> hash2.panic]
             ELSE IF HashEqual(hash1.hash, hash2.hash) THEN [eq |-> TRUE, panic |-> NoPanic]
             ELSE PrivateKeyEqualScan(k, k2, order, i + 1)

\* k.Equal(k2) for a PrivateKey k and a Key k2, the registry ranged over in
\* the sequence order
PrivateKeyEqual(k, k2, order) ==
    IF k2 = NilKey THEN [eq |-> FALSE, panic |-> NoPanic]
    ELSE PrivateKeyEqualScan(k, k2, order, 1)

\* -------------------------------------------------------------------- Name

\* Name{Principal, Names}
Name(principal, names) == [Principal |-> principal, Names |-> names]

\* the panic of reading a field through a nil pointer
NilDereference == "runtime error: invalid memory address or nil pointer dereference"

\* n.Principal.Equal(k2): the principals of the names are private keys
KeyEqual(k, k2, order) == PrivateKeyEqual(k[1], k2, order)

\* the loop of IsPrefix, with a receiver longer than n2 never a prefix
NamesAgree_NoLongerReceiver(names1, names2) ==
    /\ Len(names1) <= Len(names2)
    /\ \A i \in 1..Len(names1) : names1[i] = names2[i]

\* the loop of IsPrefix: no position that both names have differs
NamesAgree(names1, names2) ==
    \A i \in 1..Len(names1) : i <= Len(names2) => names1[i] = names2[i]

\* IsPrefix with a receiver of no principal matching only a name of no
\* principal
IsPrefix_SelfMatchesSelf(n, n2, order) ==
    IF n = <<>> THEN [prefix |-> n2 = <<>>, panic |-> NoPanic]
    ELSE IF n2 = <<>> THEN [prefix |-> FALSE, panic |-> NilDereference]
    ELSE LET eq == IF n[1].Principal = NilKey
                   THEN [eq |-> n2[1].Principal = NilKey, panic |-> NoPanic]
                   ELSE KeyEqual(n[1].Principal, n2[1].Principal, order)
         IN  IF eq.panic # NoPanic THEN [prefix |-> FALSE, panic |-> eq.panic]
             ELSE IF ~eq.eq THEN [prefix |-> FALSE, panic |-> NoPanic]
             ELSE [prefix |-> NamesAgree(n[1].Names, n2[1].Names), panic |-> NoPanic]

\* n.IsPrefix(n2) for the pointers n and n2
IsPrefix(n, n2, order) ==
    IF n = <<>> THEN [prefix |-> n2 = <<>>, panic |-> NoPanic]
    ELSE IF n2 = <<>> THEN [prefix |-> FALSE, panic |-> NilDereference]
    ELSE LET eq == IF n[1].Principal = NilKey
                   THEN [eq |-> TRUE, panic |-> NoPanic]
                   ELSE KeyEqual(n[1].Principal, n2[1].Principal, order)
         IN  IF eq.panic # NoPanic THEN [prefix |-> FALSE, panic |-> eq.panic]
             ELSE IF ~eq.eq THEN [prefix |-> FALSE, panic |-> NoPanic]
             ELSE [prefix |-> NamesAgree(n[1].Names, n2[1].Names), panic |-> NoPanic]

\* --------------------------------------------------- the caller of IsPrefix

\* the sequences over S of length up to n
RECURSIVE SeqsUpTo(_, _)
SeqsUpTo(S, n) ==
    IF n = 0 THEN {<<>>}
    ELSE LET shorter == SeqsUpTo(S, n - 1) IN
         shorter \cup {Append(s, e) : s \in {x \in shorter : Len(x) = n - 1}, e \in S}

\* the orders in which a range over the registry can visit its algorithms
ScanOrders ==
    {o \in [1..Cardinality(InitKnownHashes) -> InitKnownHashes] :
        \A i, j \in DOMAIN o : i # j => o[i] # o[j]}

\* two of them
AscendingOrder == <<B("sha224"), B("sha256"), B("sha384"), B("sha512")>>
DescendingOrder == Reverse(AscendingOrder)

\* a P-256 private key with the point (x, y), the scalar d and the hashes
P256Key(x, y, d, hashes) ==
    [ZeroPrivateKey EXCEPT !.Curve = "P-256", !.X = <<x>>, !.Y = <<y>>, !.D = <<d>>,
                           !.HashKey = [Hashes |-> hashes]]

\* the hash of the public key of k under algorithm, as the key would cache it
CachedHash(k, algorithm) ==
    [ZeroHash EXCEPT !.Algorithm = algorithm,
                     !.Hash = Sum(algorithm, PublicKeyPack(PrivateKeyPublicKey(k)).bytes)]

\* k with a cache that holds its hash under each of the algorithms
WithHashes(k, algorithms) ==
    [k EXCEPT !.HashKey = [Hashes |-> [i \in 1..Len(algorithms) |-> CachedHash(k, algorithms[i])]]]

\* two private keys, each with an empty and with a full cache
KeyA == P256Key(1, 2, 3, <<>>)
KeyB == P256Key(4, 5, 6, <<>>)
NamePrincipals ==
    {NilKey} \cup {PrivateKeyAsKey(k) : k \in {KeyA, KeyB, WithHashes(KeyA, AscendingOrder),
                                               WithHashes(KeyB, AscendingOrder)}}

NameInputs ==
    {<<>>} \cup {<<Name(p, names)>> : p \in NamePrincipals,
                                      names \in SeqsUpTo({B("a"), B("b")}, MaxNames)}

InitName ==
    /\ KnownHashes = InitKnownHashes
    /\ pc = "call"
    /\ op = "none"
    /\ arg \in [n : NameInputs, n2 : NameInputs, order : {AscendingOrder, DescendingOrder}]
    /\ res = <<>>

CallIsPrefix ==
    /\ pc = "call"
    /\ pc' = "done"
    /\ op' = "IsPrefix"
    /\ res' = IsPrefix(arg.n, arg.n2, arg.order)
    /\ UNCHANGED <<KnownHashes, arg>>

NextName == CallIsPrefix

SpecName == InitName /\ [][NextName]_vars

\* ------------------------------------------------------------------ C11

\* some position that both names have holds different local names
OverlapDiffers(names1, names2) ==
    \E i \in 1..Len(names1) : i <= Len(names2) /\ names1[i] # names2[i]

\* C11: for two names, IsPrefix is true when both have the same principal
\* and agree wherever both have a local name, whichever of them is longer;
\* it is false when some position of the overlap differs, and false when
\* the receiver has a principal that is not Equal to the other principal.
C11_IsPrefixIsLengthAgnostic ==
    (pc = "done" /\ op = "IsPrefix" /\ arg.n # <<>> /\ arg.n2 # <<>>) =>
        LET n == arg.n[1]
            n2 == arg.n2[1]
        IN  /\ res.panic = NoPanic
            /\ (n.Principal = n2.Principal /\ ~OverlapDiffers(n.Names, n2.Names))
                   => res.prefix
            /\ OverlapDiffers(n.Names, n2.Names) => ~res.prefix
            /\ (n.Principal # NilKey /\ ~KeyEqual(n.Principal, n2.Principal, arg.order).eq)
                   => ~res.prefix

\* the name (K a b c) was asked whether it is a prefix of (K a), and is
C11_Witness ==
    /\ pc = "done" /\ op = "IsPrefix" /\ arg.n # <<>> /\ arg.n2 # <<>>
    /\ arg.n[1].Principal # NilKey /\ arg.n[1].Principal = arg.n2[1].Principal
    /\ arg.n[1].Names = <<B("a"), B("b"), B("b")>> /\ arg.n2[1].Names = <<B("a")>>
    /\ res.prefix

\* ------------------------------------------------ subjects and certificates

\* h.Sexp() for a Hash h: (hash ALGORITHM VALUE), without the URIs
HashSexp(h) == List(<<Atom(B("hash")), Atom(h.Algorithm), Atom(h.Hash)>>)

\* h.Subject() for a Hash h
HashSubject(h) == HashSexp(h)

\* the digest algorithm that goes with a curve, none for any other curve
NaturalAlgorithm(curve) ==
    IF curve = "P-256" THEN B("sha256") ELSE IF curve = "P-384" THEN B("sha384") ELSE <<>>

\* k.Subject() for a PublicKey k: the hash of k under the algorithm of its
\* curve, nil when there is none
PublicKeySubject(k) ==
    LET algorithm == NaturalAlgorithm(k.Curve)
        hash == PublicKeyHashedExpr(k, algorithm)
    IN  IF algorithm = <<>> THEN [sexp |-> NilSexp, panic |-> NoPanic]
        ELSE IF hash.panic # NoPanic THEN [sexp |-> NilSexp, panic |-> hash.panic]
        ELSE IF hash.err # NoErr THEN [sexp |-> NilSexp, panic |-> NoPanic]
        ELSE [sexp |-> HashSubject(hash.hash), panic |-> NoPanic]

\* AuthCert{Expr, Issuer, Subject, Delegate, Valid, Tag}
AuthCert(expr, issuer, subject, delegate, valid, tag) ==
    [Expr |-> expr, Issuer |-> issuer, Subject |-> subject, Delegate |-> delegate,
     Valid |-> valid, Tag |-> tag]

\* k.IssueAuthCert with the issuer's public key as the subject
IssueAuthCert_IssuerAsSubject(k, publicKey, tag, validity) ==
    AuthCert(NilSexp, Name(PublicKeyAsKey(PrivateKeyPublicKey(k)), <<>>),
             PublicKeyAsKey(PrivateKeyPublicKey(k)), TRUE, <<validity>>, tag)

\* k.IssueAuthCert(publicKey, tag, validity) for a PrivateKey k
IssueAuthCert(k, publicKey, tag, validity) ==
    AuthCert(NilSexp, Name(PublicKeyAsKey(PrivateKeyPublicKey(k)), <<>>),
             PublicKeyAsKey(publicKey), TRUE, <<validity>>, tag)

\* ---------------------------------------------- the caller of IssueAuthCert

\* public keys: the ones of KeyA and KeyB, one with a cached hash, one on
\* P-384
SubjectKeys ==
    {PrivateKeyPublicKey(KeyA), PrivateKeyPublicKey(KeyB),
     [PrivateKeyPublicKey(KeyB) EXCEPT !.HashKey = [Hashes |-> <<CachedHash(KeyB, B("sha256"))>>]],
     [PrivateKeyPublicKey(KeyA) EXCEPT !.Curve = "P-384"]}

\* tags: (tag (dns foo)), (tag), an atom
Tags ==
    {List(<<Atom(B("tag")), List(<<Atom(B("dns")), Atom(B("foo"))>>)>>),
     List(<<Atom(B("tag"))>>), Atom(B("foo"))}

InitIssue ==
    /\ KnownHashes = InitKnownHashes
    /\ pc = "call"
    /\ op = "none"
    /\ arg \in [k : {KeyA, KeyB, WithHashes(KeyA, AscendingOrder)},
                publicKey : SubjectKeys, tag : Tags, validity : Valids]
    /\ res = <<>>

CallIssueAuthCert ==
    /\ pc = "call"
    /\ pc' = "done"
    /\ op' = "IssueAuthCert"
    /\ res' = IssueAuthCert(arg.k, arg.publicKey, arg.tag, arg.validity)
    /\ UNCHANGED <<KnownHashes, arg>>

NextIssue == CallIssueAuthCert

SpecIssue == InitIssue /\ [][NextIssue]_vars

\* ------------------------------------------------------------------ C12

\* C12: the certificate a P-256 key issues has the key's public key as the
\* principal of an issuer with no names, a subject whose subject expression
\* is that of the public key given, the tag given, the bounds of the
\* validity given, Delegate set and no original expression.
C12_IssuedCertHoldsItsInputs ==
    (pc = "done" /\ op = "IssueAuthCert") =>
        /\ res.Issuer = Name(PublicKeyAsKey(PrivateKeyPublicKey(arg.k)), <<>>)
        /\ res.Issuer.Principal[1].X = arg.k.X /\ res.Issuer.Principal[1].Y = arg.k.Y
        /\ res.Issuer.Principal[1].Curve = "P-256"
        /\ res.Subject # <<>>
        /\ PublicKeySubject(res.Subject[1]) = PublicKeySubject(arg.publicKey)
        /\ res.Subject[1].X = arg.publicKey.X /\ res.Subject[1].Y = arg.publicKey.Y
        /\ res.Tag = arg.tag
        /\ res.Valid # <<>>
        /\ res.Valid[1].NotBefore = arg.validity.NotBefore
        /\ res.Valid[1].NotAfter = arg.validity.NotAfter
        /\ res.Delegate
        /\ res.Expr = NilSexp

\* a key issued a certificate for the public key of another key, with a
\* validity of two bounds
C12_Witness ==
    /\ pc = "done" /\ op = "IssueAuthCert"
    /\ arg.publicKey.X # arg.k.X
    /\ arg.validity.NotBefore # <<>> /\ arg.validity.NotAfter # <<>>
    /\ res.Subject[1].X = arg.publicKey.X
    /\ res.Delegate

\* ------------------------------------------------- the caller of Hash.Equal

\* messages to hash
Messages == {B("This is a test; it is only a test"), B("foo"), <<>>}

\* hashes: under two algorithms, of a message or of arbitrary bytes, with
\* and without URIs
HashValues ==
    {[Algorithm |-> algorithm, Hash |-> hash, URIs |-> uris] :
        algorithm \in {B("sha256"), B("sha512")},
        hash \in {<<>>, <<1>>, <<1, 2>>, Sum(B("sha256"), B("foo"))},
        uris \in {<<>>, <<B("http://a")>>}}

InitHashEqual ==
    /\ KnownHashes = InitKnownHashes
    /\ pc = "call"
    /\ op = "none"
    /\ arg \in [a : HashValues, b : HashValues, c : HashValues, msg : Messages]
    /\ res = <<>>

\* Equal is called on the pairs of a, b, c, and on two hashes of msg under
\* the algorithm of a
CallHashEqual ==
    /\ pc = "call"
    /\ pc' = "done"
    /\ op' = "HashEqual"
    /\ LET h1 == [Algorithm |-> arg.a.Algorithm, Hash |-> Sum(arg.a.Algorithm, arg.msg), URIs |-> <<>>]
           h2 == [Algorithm |-> arg.a.Algorithm, Hash |-> Sum(arg.a.Algorithm, arg.msg), URIs |-> <<>>]
       IN  res' = [aa |-> HashEqual(arg.a, arg.a), ab |-> HashEqual(arg.a, arg.b),
                   ba |-> HashEqual(arg.b, arg.a), bc |-> HashEqual(arg.b, arg.c),
                   ac |-> HashEqual(arg.a, arg.c), twice |-> HashEqual(h1, h2)]
    /\ UNCHANGED <<KnownHashes, arg>>

NextHashEqual == CallHashEqual

SpecHashEqual == InitHashEqual /\ [][NextHashEqual]_vars

\* ------------------------------------------------------------------ C13

\* C13: two hashes are Equal exactly when their algorithms and their digest
\* bytes are the same, whatever their URIs; Equal is reflexive, symmetric
\* and transitive, and two hashes of one message under one algorithm are
\* Equal.
C13_HashEqualIsAlgorithmAndDigest ==
    (pc = "done" /\ op = "HashEqual") =>
        /\ res.ab = (arg.a.Algorithm = arg.b.Algorithm /\ arg.a.Hash = arg.b.Hash)
        /\ res.aa
        /\ res.ab = res.ba
        /\ (res.ab /\ res.bc) => res.ac
        /\ res.twice

\* two hashes with the same algorithm and digest and different URIs were
\* compared, and a third one that is not Equal to them
C13_Witness ==
    /\ pc = "done" /\ op = "HashEqual"
    /\ arg.a.URIs # arg.b.URIs /\ res.ab /\ ~res.bc
    /\ arg.a.Hash # <<>>

\* ------------------------------------------------------ encoding to Sexp

\* n in two decimal digits
Pad2(n) == <<48 + ((n \div 10) % 10), 48 + (n % 10)>>

\* the calendar reading of the instant t: instants are 31 seconds apart
\* from 2014-01-01 00:00:00 UTC on, so that some of them share a minute
Clock(t) ==
    [Year |-> 2014, Month |-> 1, Day |-> 1, Hour |-> (31 * t) \div 3600,
     Minute |-> ((31 * t) \div 60) % 60, Second |-> (31 * t) % 60]

\* t.Format(V0DateFmt): the layout "2006-01-02_15:04:00" has the year, month,
\* day, hour and minute of t and two literal zeros after the last colon
FormatV0(t) ==
    LET c == Clock(t) IN
    Pad2(c.Year \div 100) \o Pad2(c.Year) \o <<45>> \o Pad2(c.Month) \o <<45>> \o Pad2(c.Day)
        \o <<95>> \o Pad2(c.Hour) \o <<58>> \o Pad2(c.Minute) \o <<58, 48, 48>>

\* v.Sexp() that is a list for a Valid of no bound too
ValidSexp_AlwaysList(v) ==
    LET notBefore == IF v.NotBefore # <<>>
                     THEN List(<<Atom(B("not-before")), Atom(FormatV0(v.NotBefore[1]))>>)
                     ELSE NilSexp
        notAfter == IF v.NotAfter # <<>>
                    THEN List(<<Atom(B("not-after")), Atom(FormatV0(v.NotAfter[1]))>>)
                    ELSE NilSexp
    IN  List(<<Atom(B("valid")), notBefore, notAfter>>)

\* v.Sexp() for a Valid v: the list always has three elements, the term of
\* an absent bound being the nil Sexp
ValidSexp(v) ==
    LET notBefore == IF v.NotBefore # <<>>
                     THEN List(<<Atom(B("not-before")), Atom(FormatV0(v.NotBefore[1]))>>)
                     ELSE NilSexp
        notAfter == IF v.NotAfter # <<>>
                    THEN List(<<Atom(B("not-after")), Atom(FormatV0(v.NotAfter[1]))>>)
                    ELSE NilSexp
    IN  IF notBefore = NilSexp /\ notAfter = NilSexp THEN NilSexp
        ELSE List(<<Atom(B("valid")), notBefore, notAfter>>)

\* k.Sexp() for a Key k that is a *PublicKey or a *PrivateKey
KeySexp(k) ==
    IF k[1].type = "PrivateKey"
    THEN [sexp |-> PrivateKeySexp(k[1]), panic |-> NoPanic]
    ELSE PublicKeySexp(k[1])

\* n.Sexp() for a Name n that is not nil
NameSexp(n) ==
    LET issuerSexp == IF n.Principal # NilKey THEN KeySexp(n.Principal)
                      ELSE [sexp |-> Atom(B("Self")), panic |-> NoPanic]
    IN  IF issuerSexp.panic # NoPanic \/ Len(n.Names) = 0 THEN issuerSexp
        ELSE [sexp |-> List(<<Atom(B("name")), issuerSexp.sexp>>
                            \o [i \in 1..Len(n.Names) |-> Atom(n.Names[i])]),
              panic |-> NoPanic]

\* k.Subject() for a PrivateKey k
PrivateKeySubject(k) ==
    LET algorithm == NaturalAlgorithm(k.Curve)
        hash == PrivateKeyHashExp(k, algorithm)
    IN  IF algorithm = <<>> THEN [sexp |-> NilSexp, panic |-> NoPanic]
        ELSE IF hash.panic # NoPanic THEN [sexp |-> NilSexp, panic |-> hash.panic]
        ELSE IF hash.err # NoErr THEN [sexp |-> NilSexp, panic |-> NoPanic]
        ELSE [sexp |-> HashSubject(hash.hash), panic |-> NoPanic]

\* s.Subject() for a Subject s; calling it on the nil interface panics
SubjectSubject(s) ==
    IF s = NilKey THEN [sexp |-> NilSexp, panic |-> NilDereference]
    ELSE IF s[1].type = "PrivateKey" THEN PrivateKeySubject(s[1])
    ELSE PublicKeySubject(s[1])

\* the certificate expression with the tag put before the delegation term
AuthCertBuild_TagFirst(a) ==
    LET ds == IF a.Delegate THEN <<List(<<Atom(B("delegate"))>>)>> ELSE <<>>
        vs == IF a.Valid # <<>> /\ ValidSexp(a.Valid[1]) # NilSexp
              THEN <<ValidSexp(a.Valid[1])>> ELSE <<>>
        issuer == NameSexp(a.Issuer)
        subject == SubjectSubject(a.Subject)
    IN  IF issuer.panic # NoPanic THEN [sexp |-> NilSexp, panic |-> issuer.panic]
        ELSE IF subject.panic # NoPanic THEN [sexp |-> NilSexp, panic |-> subject.panic]
        ELSE [sexp |-> List(<<Atom(B("cert")),
                              List(<<Atom(B("issuer")), issuer.sexp>>),
                              List(<<Atom(B("subject")), subject.sexp>>)>>
                            \o <<a.Tag>> \o ds \o vs),
              panic |-> NoPanic]

\* the certificate expression built from the fields of a
AuthCertBuild(a) ==
    LET ds == IF a.Delegate THEN <<List(<<Atom(B("delegate"))>>)>> ELSE <<>>
        vs == IF a.Valid # <<>> /\ ValidSexp(a.Valid[1]) # NilSexp
              THEN <<ValidSexp(a.Valid[1])>> ELSE <<>>
        issuer == NameSexp(a.Issuer)
        subject == SubjectSubject(a.Subject)
    IN  IF issuer.panic # NoPanic THEN [sexp |-> NilSexp, panic |-> issuer.panic]
        ELSE IF subject.panic # NoPanic THEN [sexp |-> NilSexp, panic |-> subject.panic]
        ELSE [sexp |-> List(<<Atom(B("cert")),
                              List(<<Atom(B("issuer")), issuer.sexp>>),
                              List(<<Atom(B("subject")), subject.sexp>>)>>
                            \o ds \o <<a.Tag>> \o vs),
              panic |-> NoPanic]

\* a.Sexp() that builds the expression even when a.Expr is there
AuthCertSexp_AlwaysBuilds(a) ==
    IF a = <<>> THEN [sexp |-> NilSexp, panic |-> NoPanic]
    ELSE AuthCertBuild(a[1])

\* a.Sexp() for the pointer a to an AuthCert
AuthCertSexp(a) ==
    IF a = <<>> THEN [sexp |-> NilSexp, panic |-> NoPanic]
    ELSE IF a[1].Expr # NilSexp THEN [sexp |-> a[1].Expr, panic |-> NoPanic]
    ELSE AuthCertBuild(a[1])

\* ---------------------------------------------- the caller of AuthCert.Sexp

\* original expressions: none, the empty list, a certificate, an atom
Exprs ==
    {NilSexp, List(<<>>), Atom(B("foo")),
     List(<<Atom(B("cert")), List(<<Atom(B("issuer")), Atom(B("foo"))>>)>>)}

AuthCerts ==
    {AuthCert(expr, issuer, subject, delegate, valid, tag) :
        expr \in Exprs,
        issuer \in {Name(NilKey, <<>>),
                    Name(PublicKeyAsKey(PrivateKeyPublicKey(KeyA)), <<>>),
                    Name(PublicKeyAsKey(PrivateKeyPublicKey(KeyA)), <<B("a")>>)},
        subject \in {NilKey, PublicKeyAsKey(PrivateKeyPublicKey(KeyB)),
                     PrivateKeyAsKey(WithHashes(KeyA, AscendingOrder))},
        delegate \in BOOLEAN,
        valid \in {<<>>} \cup {<<v>> : v \in Valids},
        tag \in Tags}

InitAuthCert ==
    /\ KnownHashes = InitKnownHashes
    /\ pc = "call"
    /\ op = "none"
    /\ arg \in {<<>>} \cup {<<a>> : a \in AuthCerts}
    /\ res = <<>>

CallAuthCertSexp ==
    /\ pc = "call"
    /\ pc' = "done"
    /\ op' = "AuthCertSexp"
    /\ res' = AuthCertSexp(arg)
    /\ UNCHANGED <<KnownHashes, arg>>

NextAuthCert == CallAuthCertSexp

SpecAuthCert == InitAuthCert /\ [][NextAuthCert]_vars

\* ------------------------------------------------------------------ C14

\* C14: Sexp of a certificate whose original expression is present returns
\* that expression, whatever the other fields hold.
C14_SexpReturnsOriginalExpr ==
    (pc = "done" /\ op = "AuthCertSexp" /\ arg # <<>> /\ arg[1].Expr # NilSexp) =>
        /\ res.panic = NoPanic
        /\ res.sexp = arg[1].Expr

\* a certificate with an original expression and fields that do not agree
\* with it (no subject, no delegation) was encoded
C14_Witness ==
    /\ pc = "done" /\ op = "AuthCertSexp" /\ arg # <<>>
    /\ arg[1].Expr # NilSexp /\ IsList(arg[1].Expr) /\ Len(arg[1].Expr.l) = 2
    /\ arg[1].Subject = NilKey /\ ~arg[1].Delegate
    /\ res.sexp = arg[1].Expr

\* -------------------------------------------------------------------- Sign

\* Signature{Hash, Principal, R, S}
Signature(hash, principal, r, s) == [Hash |-> hash, Principal |-> principal, R |-> r, S |-> s]

\* what Sign returns: a pointer to a Signature, an error, or a panic
SignResult(sig, err, panic) == [sig |-> sig, err |-> err, panic |-> panic]

\* k.sign(h) when ecdsa.Sign draws the pair (r, s)
PrivateKeysign(k, h, r, s) ==
    SignResult(<<Signature(h, <<PrivateKeyPublicKey(k)>>, <<r>>, <<s>>)>>, NoErr, NoPanic)

\* k.Sign(s) with sha256 for every curve it supports
PrivateKeySign_AlwaysSHA256(k, s, r, sv) ==
    IF NaturalAlgorithm(k.Curve) = <<>>
    THEN SignResult(<<>>, Errorf("Only p256 & p384 are currently supported"), NoPanic)
    ELSE PrivateKeysign(k, [ZeroHash EXCEPT !.Algorithm = B("sha256"),
                                            !.Hash = Sum(B("sha256"), Pack(s))], r, sv)

\* k.Sign(s) for a PrivateKey k and a payload s, when ecdsa.Sign draws the
\* pair (r, sv)
PrivateKeySign(k, s, r, sv) ==
    LET algorithm == NaturalAlgorithm(k.Curve) IN
    IF algorithm = <<>>
    THEN SignResult(<<>>, Errorf("Only p256 & p384 are currently supported"), NoPanic)
    ELSE IF algorithm \notin KnownHashes THEN SignResult(<<>>, NoErr, NilFuncCall)
    ELSE IF s = NilSexp THEN SignResult(<<>>, NoErr, NilDereference)
    ELSE PrivateKeysign(k, [ZeroHash EXCEPT !.Algorithm = algorithm,
                                            !.Hash = Sum(algorithm, Pack(s))], r, sv)

\* ------------------------------------------------------- the caller of Sign

\* the curves a key can be on: the two supported ones, P-224, P-521, none
Curves == {"P-256", "P-384", "P-224", "P-521", ""}

\* signing keys: KeyA and KeyB on each curve
SigningKeys == {[k EXCEPT !.Curve = c] : k \in {KeyA, KeyB}, c \in Curves}

\* payloads: the tags, the expressions of the P-256 keys, none
Payloads == Tags \cup {PrivateKeySexp(k) : k \in {KeyA, KeyB}} \cup {NilSexp}

\* the values ecdsa.Sign can draw for r and s
SignatureInts == {SetBytes(b) : b \in OctetStrings}

InitSign ==
    /\ KnownHashes = InitKnownHashes
    /\ pc = "call"
    /\ op = "none"
    /\ arg \in [k : SigningKeys, s : Payloads]
    /\ res = <<>>

CallSign ==
    /\ pc = "call"
    /\ pc' = "done"
    /\ op' = "Sign"
    /\ \E r, sv \in SignatureInts : res' = PrivateKeySign(arg.k, arg.s, r, sv)
    /\ UNCHANGED <<KnownHashes, arg>>

NextSign == CallSign

SpecSign == InitSign /\ [][NextSign]_vars

\* ------------------------------------------------------------------ C15

\* C15: Sign of a payload with a P-256 key gives a Signature whose hash is
\* the sha256 digest of the packed payload (sha384 with a P-384 key) and
\* whose principal has the curve and the point of the key; with a key on
\* any other curve it gives an error and no Signature.  Hash and Principal
\* are determined by the key and the payload.
C15_SignHashesThePackedPayload ==
    (pc = "done" /\ op = "Sign" /\ arg.s # NilSexp) =>
        /\ res.panic = NoPanic
        /\ arg.k.Curve \in {"P-256", "P-384"} =>
               /\ res.err = NoErr /\ res.sig # <<>>
               /\ res.sig[1].Hash.Algorithm
                      = (IF arg.k.Curve = "P-256" THEN B("sha256") ELSE B("sha384"))
               /\ res.sig[1].Hash.Hash = Sum(res.sig[1].Hash.Algorithm, Pack(arg.s))
               /\ res.sig[1].Principal # <<>>
               /\ res.sig[1].Principal[1].Curve = arg.k.Curve
               /\ res.sig[1].Principal[1].X = arg.k.X
               /\ res.sig[1].Principal[1].Y = arg.k.Y
        /\ arg.k.Curve \notin {"P-256", "P-384"} =>
               res.err # NoErr /\ res.sig = <<>>

\* a P-384 key signed the expression of a key, with r and s of different
\* sizes
C15_Witness ==
    /\ pc = "done" /\ op = "Sign"
    /\ arg.k.Curve = "P-384" /\ arg.s = PrivateKeySexp(KeyB)
    /\ res.sig # <<>> /\ res.sig[1].R[1] > 255 /\ res.sig[1].S[1] = 0
    /\ res.sig[1].Hash.Algorithm = B("sha384")

\* ------------------------------------------------------- GeneratePrivateKey

\* what GeneratePrivateKey returns: a pointer to a PrivateKey and an error
GenerateResult(k, err) == [k |-> k, err |-> err]

\* GenerateP256Key() when ecdsa.GenerateKey draws the point (x, y) and the
\* scalar d: a P-256 key with no hashes
GenerateP256Key(x, y, d) == GenerateResult(<<P256Key(x, y, d, <<>>)>>, NoErr)

\* GeneratePrivateKey that takes the specifier without its parentheses too
GeneratePrivateKey_AlsoBare(algorithm, x, y, d) ==
    IF algorithm \in {B("(ecdsa-sha2 (curve p256))"), B("ecdsa-sha2 (curve p256)")}
    THEN GenerateP256Key(x, y, d)
    ELSE GenerateResult(<<>>, Errorf("Unknown algorithm"))

\* GeneratePrivateKey(algorithm)
GeneratePrivateKey(algorithm, x, y, d) ==
    IF algorithm = B("(ecdsa-sha2 (curve p256))")
    THEN GenerateP256Key(x, y, d)
    ELSE GenerateResult(<<>>, Errorf("Unknown algorithm"))

\* ----------------------------------------- the caller of GeneratePrivateKey

\* algorithm specifiers: the supported one, without parentheses, for p384,
\* with two spaces, in upper case, a prefix, empty
Specifiers ==
    {B("(ecdsa-sha2 (curve p256))"), B("ecdsa-sha2 (curve p256)"),
     B("(ecdsa-sha2 (curve p384))"), B("(ecdsa-sha2  (curve p256))"),
     B("(ECDSA-SHA2 (CURVE P256))"), B("ecdsa-sha2"), <<>>}

InitGenerate ==
    /\ KnownHashes = InitKnownHashes
    /\ pc = "call"
    /\ op = "none"
    /\ arg \in Specifiers
    /\ res = <<>>

CallGeneratePrivateKey ==
    /\ pc = "call"
    /\ pc' = "done"
    /\ op' = "GeneratePrivateKey"
    /\ \E x, y, d \in KeyInts : res' = GeneratePrivateKey(arg, x, y, d)
    /\ UNCHANGED <<KnownHashes, arg>>

NextGenerate == CallGeneratePrivateKey

SpecGenerate == InitGenerate /\ [][NextGenerate]_vars

\* ------------------------------------------------------------------ C16

Caches(k) ==
    {<<>>,
     <<CachedHash(k, B("sha256"))>>,
     <<[CachedHash(k, B("sha256")) EXCEPT !.URIs = <<B("http://a")>>]>>,
     [i \in 1..4 |-> CachedHash(k, AscendingOrder[i])],
     <<[ZeroHash EXCEPT !.Algorithm = B("md5"), !.Hash = <<1, 2>>]>>}

\* private keys with the points of KeyA and KeyB, on the supported curves
\* and on none, with each of the caches
HashingKeys ==
    UNION {{[k EXCEPT !.HashKey = [Hashes |-> cache]] : cache \in Caches(k)} :
              k \in {[k EXCEPT !.Curve = c] : k \in {KeyA, KeyB}, c \in {"P-256", "P-384", ""}}}

\* the algorithms asked for: the registered ones, md5, the empty name
Algorithms == InitKnownHashes \cup {B("md5"), <<>>}

InitPublicHash ==
    /\ KnownHashes = InitKnownHashes
    /\ pc = "call"
    /\ op = "none"
    /\ arg \in [k : {[PrivateKeyPublicKey(k) EXCEPT !.HashKey = k.HashKey] : k \in HashingKeys},
                algorithm : Algorithms]
    /\ res = <<>>

CallPublicKeyHashedExpr ==
    /\ pc = "call"
    /\ pc' = "done"
    /\ op' = "PublicKeyHashedExpr"
    /\ res' = PublicKeyHashedExpr(arg.k, arg.algorithm)
    /\ UNCHANGED <<KnownHashes, arg>>

NextPublicHash == CallPublicKeyHashedExpr

SpecPublicHash == InitPublicHash /\ [][NextPublicHash]_vars

InitPrivateHash ==
    /\ KnownHashes = InitKnownHashes
    /\ pc = "call"
    /\ op = "none"
    /\ arg \in [k : HashingKeys, algorithm : Algorithms]
    /\ res = <<>>

CallPrivateKeyHashExp ==
    /\ pc = "call"
    /\ pc' = "done"
    /\ op' = "PrivateKeyHashExp"
    /\ res' = PrivateKeyHashExp(arg.k, arg.algorithm)
    /\ UNCHANGED <<KnownHashes, arg>>

NextPrivateHash == CallPrivateKeyHashExp

SpecPrivateHash == InitPrivateHash /\ [][NextPrivateHash]_vars

\* ------------------------------------------------------------ C17, C18

\* k is on a supported curve
Supported(k) == k.Curve \in {"P-256", "P-384"}

\* the digest of the packed public key with the curve and point of k
PublicDigest(k, algorithm) == Sum(algorithm, PublicKeyPack(PrivateKeyPublicKey(k)).bytes)

\* C17: the hash of a public key under an algorithm is the cached hash
\* when the cache holds one, else the digest of the packed key under a
\* registered algorithm, else an unknown-algorithm error; a key with an
\* empty cache never gets the zero Hash with a nil error.
C17_PublicKeyHashIsCachedOrComputed ==
    (pc = "done" /\ op = "PublicKeyHashedExpr" /\ Supported(arg.k)) =>
        LET cached == HashKeyHashExp(arg.k.HashKey, arg.algorithm) IN
        /\ res.panic = NoPanic
        /\ cached.err = NoErr => (res.err = NoErr /\ res.hash = cached.hash)
        /\ (cached.err # NoErr /\ arg.algorithm \in KnownHashes) =>
               /\ res.err = NoErr
               /\ res.hash.Algorithm = arg.algorithm
               /\ res.hash.Hash = PublicDigest(arg.k, arg.algorithm)
        /\ (cached.err # NoErr /\ arg.algorithm \notin KnownHashes) => res.err # NoErr
        /\ arg.k.HashKey.Hashes = <<>> => ~(res.hash = ZeroHash /\ res.err = NoErr)

\* C18: the hash of a private key under a registered algorithm succeeds,
\* also for a key with an empty cache, and is the digest of the packed
\* public key of its point, the hash of k.PublicKey().
C18_PrivateKeyHashIsPublicDigest ==
    (pc = "done" /\ op = "PrivateKeyHashExp" /\ Supported(arg.k)
        /\ arg.algorithm \in KnownHashes) =>
        /\ res.panic = NoPanic
        /\ res.err = NoErr
        /\ res.hash.Algorithm = arg.algorithm
        /\ res.hash.Hash = PublicDigest(arg.k, arg.algorithm)
        /\ res.hash.Hash # Sum(arg.algorithm, PrivateKeyPack(arg.k))

\* ------------------------------------------ the caller of PrivateKey.Equal

\* the private keys compared: KeyA and KeyB with no hashes, with the
\* sha256 hash, with every hash
ComparedKeys ==
    UNION {{k, WithHashes(k, <<B("sha256")>>), WithHashes(k, AscendingOrder)} : k \in {KeyA, KeyB}}

\* the keys they are compared with: nil, hash keys with no hashes and with
\* the sha256 hash of KeyA, the private keys, their public keys
OtherKeys ==
    {NilKey, HashKeyAsKey(ZeroHashKey),
     HashKeyAsKey([Hashes |-> <<CachedHash(KeyA, B("sha256"))>>])}
        \cup {PrivateKeyAsKey(k) : k \in ComparedKeys}
        \cup {PublicKeyAsKey([PrivateKeyPublicKey(k) EXCEPT !.HashKey = k.HashKey]) :
                 k \in ComparedKeys}

InitPrivateEqual ==
    /\ KnownHashes = InitKnownHashes
    /\ pc = "call"
    /\ op = "none"
    /\ arg \in [k : ComparedKeys, k2 : OtherKeys, order : ScanOrders]
    /\ res = <<>>

CallPrivateKeyEqual ==
    /\ pc = "call"
    /\ pc' = "done"
    /\ op' = "PrivateKeyEqual"
    /\ res' = PrivateKeyEqual(arg.k, arg.k2, arg.order)
    /\ UNCHANGED <<KnownHashes, arg>>

NextPrivateEqual == CallPrivateKeyEqual

SpecPrivateEqual == InitPrivateEqual /\ [][NextPrivateEqual]_vars

\* ------------------------------------------------------------------ C19

\* HashExp under algorithm succeeds on k and on k2 and gives Equal hashes
AgreeUnder(k, k2, algorithm) ==
    LET hash1 == PrivateKeyHashExp(k, algorithm)
        hash2 == KeyHashExp(k2, algorithm)
    IN  /\ hash1.err = NoErr /\ hash1.panic = NoPanic
        /\ hash2.err = NoErr /\ hash2.panic = NoPanic
        /\ HashEqual(hash1.hash, hash2.hash)

\* C19: Equal of a private key and a key is true exactly when HashExp
\* succeeds on both under some registered algorithm with Equal hashes; it
\* is false for the nil key, for a key whose HashExp fails under every
\* registered algorithm, and for a key with another point, in whatever
\* order the registry is ranged over.
C19_EqualIsSomeSharedHash ==
    (pc = "done" /\ op = "PrivateKeyEqual") =>
        /\ res.panic = NoPanic
        /\ res.eq = (arg.k2 # NilKey
                        /\ \E algorithm \in KnownHashes : AgreeUnder(arg.k, arg.k2, algorithm))
        /\ arg.k2 = NilKey => ~res.eq
        /\ (arg.k2 # NilKey
               /\ \A algorithm \in KnownHashes : KeyHashExp(arg.k2, algorithm).err # NoErr)
            => ~res.eq
        /\ (arg.k2 # NilKey /\ arg.k2[1].type # "HashKey"
               /\ <<arg.k2[1].X, arg.k2[1].Y>> # <<arg.k.X, arg.k.Y>>)
            => ~res.eq

\* ---------------------------------------------- the caller of Valid.Sexp

InitValidSexp ==
    /\ KnownHashes = InitKnownHashes
    /\ pc = "call"
    /\ op = "none"
    /\ arg \in [v : Valids, v2 : Valids]
    /\ res = <<>>

\* the validity of a certificate and the validity it was issued with are
\* both encoded, to be compared
CallValidSexp ==
    /\ pc = "call"
    /\ pc' = "done"
    /\ op' = "ValidSexp"
    /\ res' = [sexp |-> ValidSexp(arg.v), sexp2 |-> ValidSexp(arg.v2)]
    /\ UNCHANGED <<KnownHashes, arg>>

NextValidSexp == CallValidSexp

SpecValidSexp == InitValidSexp /\ [][NextValidSexp]_vars

\* ------------------------------------------------------------------ C20

\* s is the term (name T) with T the timestamp of the bound
IsBoundTerm(s, name, bound) ==
    /\ IsList(s) /\ Len(s.l) = 2
    /\ s.l[1] = Atom(B(name))
    /\ bound # <<>> /\ s.l[2] = Atom(FormatV0(bound[1]))

\* C20: Sexp of a Valid with no bound is no expression; otherwise it is a
\* list that starts with "valid", followed by the not-before term if
\* NotBefore is present and by the not-after term if NotAfter is present,
\* and by nothing else: no element of it is nil.
C20_ValidSexpHasOnlyPresentBounds ==
    (pc = "done" /\ op = "ValidSexp") =>
        LET v == arg.v
            s == res.sexp
            present == (IF v.NotBefore # <<>> THEN 1 ELSE 0) + (IF v.NotAfter # <<>> THEN 1 ELSE 0)
        IN  IF present = 0 THEN s = NilSexp
            ELSE /\ IsList(s) /\ Len(s.l) = 1 + present
                 /\ s.l[1] = Atom(B("valid"))
                 /\ \A i \in 2..Len(s.l) :
                        \/ IsBoundTerm(s.l[i], "not-before", v.NotBefore)
                        \/ IsBoundTerm(s.l[i], "not-after", v.NotAfter)

\* ------------------------------------------------------------------ C21

\* the TIMESTAMP atom of the term s of a bound
Timestamp(s) == s.l[2].v

\* C21: Sexp renders each bound with its seconds, so two validities whose
\* bounds of the same name are different instants, even instants of the same
\* minute, have different TIMESTAMP atoms.
C21_TimestampsKeepSeconds ==
    (pc = "done" /\ op = "ValidSexp") =>
        /\ (arg.v.NotBefore # <<>> /\ arg.v2.NotBefore # <<>>
                /\ arg.v.NotBefore # arg.v2.NotBefore)
            => Timestamp(res.sexp.l[2]) # Timestamp(res.sexp2.l[2])
        /\ (arg.v.NotAfter # <<>> /\ arg.v2.NotAfter # <<>>
                /\ arg.v.NotAfter # arg.v2.NotAfter)
            => Timestamp(res.sexp.l[3]) # Timestamp(res.sexp2.l[3])

\* --------------------------------------------------------- pairs of names

\* the panic of calling a method of a nil interface value
NilInterfaceCall == "runtime error: invalid memory address or nil pointer dereference"

\* n.Equal(n2) for the pointer n and the value n2: Equal of the principal of
\* n is called whether or not n has a principal
NameEqual(n, n2, order) ==
    IF n = <<>> THEN [eq |-> FALSE, panic |-> NoPanic]
    ELSE IF n[1].Principal = NilKey THEN [eq |-> FALSE, panic |-> NilInterfaceCall]
    ELSE LET eq == KeyEqual(n[1].Principal, n2.Principal, order)
         IN  IF eq.panic # NoPanic THEN [eq |-> FALSE, panic |-> eq.panic]
             ELSE IF ~eq.eq THEN [eq |-> FALSE, panic |-> NoPanic]
             ELSE IF \E i \in 1..Len(n[1].Names) :
                         i > Len(n2.Names) \/ n[1].Names[i] # n2.Names[i]
             THEN [eq |-> FALSE, panic |-> NoPanic]
             ELSE [eq |-> Len(n[1].Names) = Len(n2.Names), panic |-> NoPanic]

\* names of no principal, of one key and of another
PairNames ==
    {Name(p, names) : p \in {NilKey, PrivateKeyAsKey(KeyA), PrivateKeyAsKey(KeyB)},
                      names \in SeqsUpTo({B("a"), B("b")}, MaxNames)}

InitNamePair ==
    /\ KnownHashes = InitKnownHashes
    /\ pc = "call"
    /\ op = "none"
    /\ arg \in [n : {<<n>> : n \in PairNames}, n2 : {<<n>> : n \in PairNames},
                order : {AscendingOrder, DescendingOrder}]
    /\ res = <<>>

CallNameEqual ==
    /\ pc = "call"
    /\ pc' = "done"
    /\ op' = "Equal"
    /\ res' = NameEqual(arg.n, arg.n2[1], arg.order)
    /\ UNCHANGED <<KnownHashes, arg>>

\* each of the two names is asked whether it is a prefix of the other
CallIsPrefixBothWays ==
    /\ pc = "call"
    /\ pc' = "done"
    /\ op' = "IsPrefixBothWays"
    /\ res' = [forward |-> IsPrefix(arg.n, arg.n2, arg.order),
               backward |-> IsPrefix(arg.n2, arg.n, arg.order)]
    /\ UNCHANGED <<KnownHashes, arg>>

NextNamePair == CallNameEqual \/ CallIsPrefixBothWays

SpecNamePair == InitNamePair /\ [][NextNamePair]_vars

\* ------------------------------------------------------------------ C22

\* the principals of two names are equal: both absent, or both present and
\* Equal
SamePrincipal(n, n2, order) ==
    IF n.Principal = NilKey \/ n2.Principal = NilKey
    THEN n.Principal = n2.Principal
    ELSE KeyEqual(n.Principal, n2.Principal, order).eq

\* C22: Equal returns a boolean for every pair of names, without a panic,
\* and the boolean is true exactly when the principals are equal and the
\* local names are the same sequence; this holds for the names of no
\* principal (Self) too, two of which with the same local names are Equal.
C22_NameEqualIsTotal ==
    (pc = "done" /\ op = "Equal") =>
        /\ res.panic = NoPanic
        /\ res.eq <=> (/\ SamePrincipal(arg.n[1], arg.n2[1], arg.order)
                       /\ arg.n[1].Names = arg.n2[1].Names)

\* ------------------------------------------------------------------ C28

C23_SynthesizedCertOrder ==
    (pc = "done" /\ op = "AuthCertSexp" /\ arg # <<>> /\ arg[1].Expr = NilSexp
        /\ arg[1].Subject # NilKey) =>
        LET a == arg[1]
            s == res.sexp
            d == IF a.Delegate THEN 1 ELSE 0
            ISSUER == IF a.Issuer.Names # <<>> THEN NameSexp(a.Issuer).sexp
                      ELSE IF a.Issuer.Principal = NilKey THEN Atom(B("Self"))
                      ELSE KeySexp(a.Issuer.Principal).sexp
        IN  /\ res.panic = NoPanic
            /\ IsList(s) /\ Len(s.l) \in {4 + d, 5 + d}
            /\ s.l[1] = Atom(B("cert"))
            /\ s.l[2] = List(<<Atom(B("issuer")), ISSUER>>)
            /\ s.l[3] = List(<<Atom(B("subject")), SubjectSubject(a.Subject).sexp>>)
            /\ a.Delegate => s.l[4] = List(<<Atom(B("delegate"))>>)
            /\ s.l[4 + d] = a.Tag
            /\ Len(s.l) = 5 + d => (a.Valid # <<>> /\ s.l[5 + d] = ValidSexp(a.Valid[1]))

\* a delegating certificate of Self with both bounds was encoded in six
\* elements
C23_Witness ==
    /\ pc = "done" /\ op = "AuthCertSexp" /\ arg # <<>> /\ arg[1].Expr = NilSexp
    /\ arg[1].Subject # NilKey /\ arg[1].Delegate
    /\ arg[1].Issuer.Principal = NilKey
    /\ arg[1].Valid # <<>> /\ arg[1].Valid[1].NotBefore # <<>> /\ arg[1].Valid[1].NotAfter # <<>>
    /\ res.panic = NoPanic /\ Len(res.sexp.l) = 6

\* --------------------------------------- the encoding of an issued cert

\* a certificate is issued and encoded, and so is the same certificate
\* without its Valid
CallIssueAndEncode ==
    /\ pc = "call"
    /\ pc' = "done"
    /\ op' = "IssueAndEncode"
    /\ LET c == IssueAuthCert(arg.k, arg.publicKey, arg.tag, arg.validity)
       IN  res' = [cert |-> c,
                   sexp |-> AuthCertSexp(<<c>>),
                   bare |-> AuthCertSexp(<<[c EXCEPT !.Valid = <<>>]>>)]
    /\ UNCHANGED <<KnownHashes, arg>>

NextIssueEncode == CallIssueAuthCert \/ CallIssueAndEncode

SpecIssueEncode == InitIssue /\ [][NextIssueEncode]_vars

\* ------------------------------------------------------------------ C29

\* some element of the list s is a list that starts with "valid"
HasValidityTerm(s) ==
    \E i \in 1..Len(s.l) :
        IsList(s.l[i]) /\ Len(s.l[i].l) > 0 /\ s.l[i].l[1] = Atom(B("valid"))

\* C29 as stated: the encoding has a validity term exactly when Valid is
\* present, so that of an issued certificate, whose Valid is always set,
\* has one and differs from the encoding without Valid.
C29_ValidityTermIffValidPresent ==
    (pc = "done" /\ op = "IssueAndEncode" /\ res.sexp.panic = NoPanic) =>
        /\ res.cert.Valid # <<>>
        /\ HasValidityTerm(res.sexp.sexp)
        /\ ~HasValidityTerm(res.bare.sexp)
        /\ res.sexp.sexp # res.bare.sexp

\* C29: the encoding of an issued certificate has a validity term exactly
\* when its Valid, which is always present, has at least one bound; issued
\* with no bound, the certificate encodes with no validity term, as the
\* same certificate without Valid does.
C29_ValidityTermIffSomeBound ==
    (pc = "done" /\ op = "IssueAndEncode" /\ res.sexp.panic = NoPanic) =>
        LET bounded == arg.validity.NotBefore # <<>> \/ arg.validity.NotAfter # <<>>
        IN  /\ res.cert.Valid # <<>>
            /\ res.bare.panic = NoPanic
            /\ HasValidityTerm(res.sexp.sexp) <=> bounded
            /\ ~HasValidityTerm(res.bare.sexp)
            /\ (res.sexp.sexp = res.bare.sexp) <=> ~bounded

\* a certificate issued with no bound was encoded
C29_Witness ==
    /\ pc = "done" /\ op = "IssueAndEncode" /\ res.sexp.panic = NoPanic
    /\ arg.validity = Valid(<<>>, <<>>)
    /\ res.cert.Valid = <<Valid(<<>>, <<>>)>>
    /\ IsList(res.sexp.sexp) /\ res.sexp.sexp = res.bare.sexp

\* ------------------------------------------------------------------ C24

\* the expression s decodes as a hash
DecodesAsHash(s) == EvalHash(s).panic = NoPanic /\ EvalHash(s).err = NoErr

\* s is a list that starts with the atom name
StartsWith(s, name) ==
    IsList(s) /\ Len(s.l) >= 1 /\ IsAtom(s.l[1]) /\ s.l[1].v = B(name)

\* C24: one call of EvalSignature calls lookupFunc at most once. It calls it
\* only for an expression of four elements that starts with "signature",
\* whose hash expression has decoded and whose principal is a (hash ...)
\* expression that has decoded, and then with that hash; it does not call it
\* for a (public-key ...) principal.
C24_LookupAtMostOnce ==
    (pc = "done" /\ op = "EvalSignature") =>
        /\ Len(res.calls) <= 1
        /\ res.calls # <<>> =>
               /\ IsList(arg.s) /\ Len(arg.s.l) = 4 /\ AtomEqual(signatureAtom, arg.s.l[1])
               /\ DecodesAsHash(arg.s.l[2])
               /\ StartsWith(arg.s.l[3], "hash")
               /\ DecodesAsHash(arg.s.l[3])
               /\ res.calls = <<EvalHash(arg.s.l[3]).h>>
               /\ ~arg.lookupFunc.isNil
        /\ (IsList(arg.s) /\ Len(arg.s.l) >= 3 /\ StartsWith(arg.s.l[3], "public-key"))
               => res.calls = <<>>

\* lookupFunc was called once, for a hash it knows no key for
C24_Witness ==
    /\ pc = "done" /\ op = "EvalSignature"
    /\ Len(res.calls) = 1
    /\ StartsWith(arg.s.l[3], "hash")
    /\ res.err.kind = "HashNotFoundError"

\* ------------------------------------------------------------------ C25

\* the number of bytes the named algorithm puts out
DigestSize(algorithm) ==
    CASE algorithm = B("sha224") -> 28
      [] algorithm = B("sha256") -> 32
      [] algorithm = B("sha384") -> 48
      [] algorithm = B("sha512") -> 64
      [] OTHER -> 0

\* C25: a Hash that EvalHash returns without an error has a digest of as
\* many bytes as its algorithm puts out; a digest atom of another length
\* under a registered algorithm is an error.
C25_DecodedDigestHasAlgorithmSize ==
    (pc = "done" /\ op = "EvalHash" /\ res.panic = NoPanic /\ res.err = NoErr) =>
        Len(res.h.Hash) = DigestSize(res.h.Algorithm)

\* ------------------------------------------------- chained intersections

InitChain ==
    /\ KnownHashes = InitKnownHashes
    /\ pc = "call"
    /\ op = "none"
    /\ arg \in [a : Valids, b : Valids, c : Valids]
    /\ res = <<>>

\* a, b and c are intersected from the left, the Valid of the first call
\* being the receiver of the second, and from the right
CallIntersectChain ==
    /\ pc = "call"
    /\ pc' = "done"
    /\ op' = "IntersectChain"
    /\ LET first == Intersect(arg.a, arg.b)
           inner == Intersect(arg.b, arg.c)
       IN  res' = [first |-> first, second |-> Intersect(first.i, arg.c),
                   inner |-> inner, outer |-> Intersect(arg.a, inner.i)]
    /\ UNCHANGED <<KnownHashes, arg>>

NextChain == CallIntersectChain

SpecChain == InitChain /\ [][NextChain]_vars

\* ------------------------------------------------------------------ C27

\* C27 as stated: when a.Intersect(b) is empty, so is the intersection of
\* the Valid it returned with any c; intersecting a, b and c gives the same
\* flag and bounds from the left as from the right.
C27_EmptinessSurvivesChaining ==
    (pc = "done" /\ op = "IntersectChain") =>
        /\ ~res.first.nonEmpty => ~res.second.nonEmpty
        /\ res.second = res.outer

\* C27: when a.Intersect(b) is empty the Valid it returns has no bounds,
\* and intersecting that Valid with c gives c back as non-empty, unless c
\* itself has its NotBefore after its NotAfter: the emptiness is carried
\* by the flag alone. When neither a.Intersect(b) nor b.Intersect(c) is
\* empty, the flag and bounds are the same from the left as from the right.
C27_EmptinessIsOnlyInTheFlag ==
    (pc = "done" /\ op = "IntersectChain") =>
        /\ ~res.first.nonEmpty =>
               /\ res.first.i = Valid(<<>>, <<>>)
               /\ res.second.nonEmpty = ~Inverted(arg.c)
               /\ ~Inverted(arg.c) => res.second.i = arg.c
        /\ (res.first.nonEmpty /\ res.inner.nonEmpty) => res.second = res.outer

\* a and b do not meet, and the Valid of their intersection met with a
\* bounded c is c, not empty
C27_Witness ==
    /\ pc = "done" /\ op = "IntersectChain"
    /\ ~res.first.nonEmpty
    /\ arg.c.NotBefore # <<>> /\ arg.c.NotAfter # <<>>
    /\ res.second.nonEmpty /\ res.second.i = arg.c
    /\ ~res.outer.nonEmpty

\* ------------------------------------------------- the three decoders

\* an expression of any of the three kinds, and a lookup for the signatures
InitDecode ==
    /\ KnownHashes = InitKnownHashes
    /\ pc = "call"
    /\ op = "none"
    /\ arg \in [s : SignatureInputs, lookupFunc : LookupFuncs]
                \cup [s : HashInputs \cup KeyInputs, lookupFunc : {[isNil |-> TRUE, table |-> <<>>]}]
    /\ res = <<>>

DecodeSignature ==
    /\ pc = "call"
    /\ pc' = "done"
    /\ op' = "EvalSignature"
    /\ res' = EvalSignature(arg.s, arg.lookupFunc)
    /\ UNCHANGED <<KnownHashes, arg>>

DecodeHash ==
    /\ pc = "call"
    /\ pc' = "done"
    /\ op' = "EvalHash"
    /\ res' = EvalHash(arg.s)
    /\ UNCHANGED <<KnownHashes, arg>>

DecodePublicKey ==
    /\ pc = "call"
    /\ pc' = "done"
    /\ op' = "EvalPublicKey"
    /\ res' = EvalPublicKey(arg.s)
    /\ UNCHANGED <<KnownHashes, arg>>

NextDecode == DecodeSignature \/ DecodeHash \/ DecodePublicKey

SpecDecode == InitDecode /\ [][NextDecode]_vars

\* ------------------------------------------------------------------ C30

\* C30: a decoder that returns an error returns nothing else: EvalSignature
\* no Signature, EvalHash the zero Hash, EvalPublicKey no key. A decoder
\* that returns no error returns all of its result: a Signature with a
\* principal, R and S, a Hash with its registered algorithm and the digest
\* of the expression, a key with a curve and both coordinates.
C30_NoPartialResults ==
    (pc = "done" /\ res.panic = NoPanic) =>
        /\ op = "EvalSignature" =>
               IF res.err # NoErr THEN res.sig = <<>>
               ELSE /\ res.sig # <<>>
                    /\ res.sig[1].Principal # <<>>
                    /\ res.sig[1].R # <<>> /\ res.sig[1].S # <<>>
        /\ op = "EvalHash" =>
               IF res.err # NoErr THEN res.h = ZeroHash
               ELSE /\ res.h.Algorithm \in KnownHashes
                    /\ res.h.Hash = arg.s.l[3].v
        /\ op = "EvalPublicKey" =>
               IF res.err # NoErr THEN res.k = <<>>
               ELSE /\ res.k # <<>>
                    /\ res.k[1].Curve # "" /\ res.k[1].X # <<>> /\ res.k[1].Y # <<>>

\* a hash expression with a registered algorithm, a digest and URIs in
\* error was decoded
C30_Witness ==
    /\ pc = "done" /\ op = "EvalHash"
    /\ IsList(arg.s) /\ Len(arg.s.l) = 4 /\ IsAtom(arg.s.l[2]) /\ IsAtom(arg.s.l[3])
    /\ validHash(arg.s.l[2].v)
    /\ res.panic = NoPanic /\ res.err # NoErr
    /\ res.h = ZeroHash

\* ---------------------------------------------- callers on a shared key

\* two goroutines that hold the same *PrivateKey
Callers == {1, 2}

\* the operations a caller runs on the shared key, or next to it
Operations ==
    {"HashExp", "Hashed", "Sign", "Equal", "Sexp", "PublicKey", "IssueAuthCert",
     "EvalHash", "EvalPublicKey", "Intersect"}

\* what the operation returns when it reads the key k; a holds the order of
\* the range over the registry and the integers ecdsa.Sign draws
Result(operation, k, a) ==
    CASE operation = "HashExp" -> PrivateKeyHashExp(k, B("sha256"))
      [] operation = "Hashed" ->
            [bytes |-> PrivateKeyHashExp(k, B("sha256")).hash.Hash,
             err |-> PrivateKeyHashExp(k, B("sha256")).err]
      [] operation = "Sign" -> PrivateKeySign(k, List(<<Atom(B("tag"))>>), a.r, a.sv)
      [] operation = "Equal" -> PrivateKeyEqual(k, PrivateKeyAsKey(KeyA), a.order)
      [] operation = "Sexp" -> PrivateKeySexp(k)
      [] operation = "PublicKey" -> PrivateKeyPublicKey(k)
      [] operation = "IssueAuthCert" ->
            IssueAuthCert(k, PrivateKeyPublicKey(KeyB), List(<<Atom(B("tag"))>>),
                          Valid(<<>>, <<>>))
      [] operation = "EvalHash" -> EvalHash(HashTerm("sha256", Digest1))
      [] operation = "EvalPublicKey" -> EvalPublicKey(PublicKeyTerm("p256", <<1>>, <<2>>))
      [] OTHER -> Intersect(Valid(<<0>>, <<2>>), Valid(<<1>>, <<3>>))

\* the key after an operation that stores the hash it computed in the cache
\* of the key
KeyAfter_CachesHash(operation, k) ==
    IF operation \in {"HashExp", "Hashed"} /\ k.HashKey.Hashes = <<>>
    THEN [k EXCEPT !.HashKey = [Hashes |-> <<CachedHash(k, B("sha256"))>>]]
    ELSE k

\* the key after the operation: no operation assigns to a field of its
\* receiver or to the cache embedded in it
KeyAfter(operation, k) == k

InitShared ==
    /\ KnownHashes = InitKnownHashes
    /\ pc = [c \in Callers |-> "call"]
    /\ op = [c \in Callers |-> "none"]
    /\ arg \in {a \in [k : {KeyA, WithHashes(KeyA, <<B("sha256")>>),
                             [KeyB EXCEPT !.Curve = "P-384"]},
                        k0 : {KeyA, WithHashes(KeyA, <<B("sha256")>>),
                              [KeyB EXCEPT !.Curve = "P-384"]},
                        ops : [Callers -> Operations],
                        order : {AscendingOrder, DescendingOrder},
                        r : {1}, sv : {2}] : a.k = a.k0}
    /\ res = [c \in Callers |-> [seen |-> <<>>, overlapped |-> FALSE, out |-> <<>>]]

\* caller c enters its operation and reads the key for the first time
Begin(c) ==
    /\ pc[c] = "call"
    /\ pc' = [pc EXCEPT ![c] = "running"]
    /\ op' = [op EXCEPT ![c] = arg.ops[c]]
    /\ res' = [res EXCEPT ![c] = [seen |-> <<arg.k>>,
                                  overlapped |-> \E d \in Callers : pc[d] = "running",
                                  out |-> <<>>]]
    /\ UNCHANGED <<KnownHashes, arg>>

\* caller c reads the key and the registry again and returns
Finish(c) ==
    /\ pc[c] = "running"
    /\ pc' = [pc EXCEPT ![c] = "done"]
    /\ res' = [res EXCEPT ![c].out = <<Result(op[c], arg.k, arg)>>]
    /\ arg' = [arg EXCEPT !.k = KeyAfter(op[c], arg.k)]
    /\ UNCHANGED <<KnownHashes, op>>

NextShared == \E c \in Callers : Begin(c) \/ Finish(c)

SpecShared == InitShared /\ [][NextShared]_vars

\* ------------------------------------------------------------------ C26

\* what the callers get when first runs its whole operation and second
\* runs its own after it
Sequential(first, second) ==
    [c \in Callers |->
        IF c = first THEN <<Result(arg.ops[first], arg.k0, arg)>>
        ELSE <<Result(arg.ops[second], KeyAfter(arg.ops[first], arg.k0), arg)>>]

\* C26: the registry holds sha224, sha256, sha384 and sha512 and nothing
\* else, at every step of every operation; the shared key is at every step
\* what it was before the calls, cache included; and the results of two
\* interleaved calls are the results of the same calls run one after the
\* other.
C26_NoOperationWrites ==
    /\ KnownHashes = {B("sha224"), B("sha256"), B("sha384"), B("sha512")}
    /\ arg.k = arg.k0
    /\ \A c \in Callers : pc[c] # "call" => res[c].seen = <<arg.k0>>
    /\ (\A c \in Callers : pc[c] = "done") =>
           \/ [c \in Callers |-> res[c].out] = Sequential(1, 2)
           \/ [c \in Callers |-> res[c].out] = Sequential(2, 1)

\* a call of HashExp and a call of Equal on a key with a cached hash have
\* run at the same time and returned
C26_Witness ==
    /\ \A c \in Callers : pc[c] = "done"
    /\ arg.ops[1] = "HashExp" /\ arg.ops[2] = "Equal"
    /\ arg.k0 = WithHashes(KeyA, <<B("sha256")>>)
    /\ res[2].overlapped
    /\ res[1].out[1].err = NoErr /\ res[2].out[1].eq

====
